---------------------------- MODULE Spec2Model ----------------------------
(***************************************************************************)
(* A model of the WhatsApp cleaning / wrangling pipeline:                  *)
(*   src/src/cleaning.py      the seven cleaning steps and run_pipeline    *)
(*   src/src/utils/audit.py   get_file_stats, audit_transformation,        *)
(*                            audit_pipeline                               *)
(*   src/src/wrangling.py     parse_to_dataframe, classify_message_type    *)
(*                                                                         *)
(* Text is modelled at character level.  A character is a one-character    *)
(* string; the characters that cannot be written in ASCII carry a name:    *)
(*   "NL" line feed, "TAB" tab, "LRM" U+200E, "HEART" U+1F5A4,             *)
(*   "GRIN" U+1F601, "e^" U+00EA, "O'" U+00D3, "A~" U+00C3.                *)
(* A string is a sequence of characters, a line is a string as             *)
(* readlines() returns it (its "NL" included), a file is the sequence of   *)
(* its lines.                                                              *)
(***************************************************************************)
EXTENDS Integers, Sequences, FiniteSets, TLC

VARIABLES
    \* ---- run_pipeline (cleaning.py) ----
    order,        \* the list of step ids given to run_pipeline
    raw_file,     \* the path given as raw_file
    fs,           \* the file system: path -> [exists, lines]
    dirExists,    \* whether output_dir exists
    pc,           \* position inside run_pipeline
    i,            \* the loop index of `for i, step_id in enumerate(order)`
    previous,     \* the variable `previous`
    outputs,      \* dict step_id -> path
    audits,       \* dict step_id -> audit record
    metrics,      \* dict step_id -> metrics record
    step_metrics, \* the variable `step_metrics` of the current iteration
    result,       \* the returned dict (df_audit, totals, final_output) or the error
    calls,        \* history: the transform and audit calls made, in order
    rawOriginal,  \* history: the lines of raw_file when run_pipeline was called
    \* ---- a single cleaning step applied twice ----
    stepId, stepIn, stepOut, stepOut2, stepPc,
    \* ---- parse_to_dataframe / export_corpus_files (wrangling.py) ----
    lines,           \* what readlines() returned
    line_num,        \* the loop variable line_num (0 before the loop)
    messages,        \* the list `messages`
    current_message, \* the dict `current_message` (open = FALSE models None)
    df,              \* the returned DataFrame's rows
    chat,            \* the lines export_corpus_files wrote to chat_complete.txt
    parsePc,
    \* ---- classify_message_type (wrangling.py) ----
    content,         \* the argument of classify_message_type
    tipo_mensagem,   \* the tag returned for content
    content_recased, \* content with its letter case changed
    tipo_recased,    \* the tag returned for content_recased
    classPc,
    \* ---- run_wrangling_pipeline after 'parse' (wrangling.py) ----
    heap,               \* the DataFrame objects: object id -> table (a list of rows)
    wdf,                \* the variable df of run_wrangling_pipeline: an object id
    media_dir,          \* the argument media_dir and the directory it names
    transcription_file, \* the argument transcription_file and the CSV it names
    wstep,              \* the loop index of `for i, step_id in enumerate(order)`
    wfiles,             \* the files of output_dir: name -> text
    woutputs,           \* the dict `outputs`: key -> file name
    wcalls,             \* history: the calls of the stage functions
    wwrites,            \* history: the names of the files written, in order
    wpc,
    \* ---- main of scripts/transcribe_media.py, run and run again ----
    MEDIA_DIR,       \* the media directory: whether it exists, and its files
    COMPLETE_FILE,   \* transcriptions.csv: whether it exists, and its rows
    PROGRESS_FILE,   \* transcriptions_progress.csv: the same
    tdf,             \* the variable df of main: the rows of the table
    is_complete,     \* the variable is_complete of main
    df_pending,      \* df_pending.index: the row numbers the loop goes over
    processed,       \* the variable processed of main
    run,             \* history: the number of the run of main (1 is the first)
    kills,           \* history: how many runs were terminated from outside
    loaded,          \* history: the table load_or_create_dataframe returned
    api_calls,       \* history: the transcription calls made: run and row
    file_ops,        \* history: the writes and deletions of the two files
    tpc

pipeVars  == <<order, raw_file, fs, dirExists, pc, i, previous, outputs, audits,
               metrics, step_metrics, result, calls, rawOriginal>>
stepVars  == <<stepId, stepIn, stepOut, stepOut2, stepPc>>
parseVars == <<lines, line_num, messages, current_message, df, chat, parsePc>>
classVars == <<content, tipo_mensagem, content_recased, tipo_recased, classPc>>
wrangleVars == <<heap, wdf, media_dir, transcription_file, wstep, wfiles, woutputs,
                 wcalls, wwrites, wpc>>
batchVars == <<MEDIA_DIR, COMPLETE_FILE, PROGRESS_FILE, tdf, is_complete, df_pending,
               processed, run, kills, loaded, api_calls, file_ops, tpc>>
vars      == <<pipeVars, stepVars, parseVars, classVars, wrangleVars, batchVars>>

----------------------------------------------------------------------------
(* Characters and strings                                                  *)

Digits == {"0", "1", "2", "3", "4", "5", "6", "7", "8", "9"}

\* str.strip() / lstrip() / rstrip() without argument strip these
Whitespace == {" ", "TAB", "NL"}

\* the number of bytes of a character in UTF-8 (os.path.getsize counts bytes)
Utf8Len(c) ==
    CASE c = "LRM" -> 3
      [] c \in {"e^", "O'", "A~"} -> 2
      [] c \in {"HEART", "GRIN"} -> 4
      [] OTHER -> 1

\* s[i..] starts with pat
IsPrefixAt(s, pat, k) ==
    /\ k + Len(pat) - 1 <= Len(s)
    /\ \A j \in 1..Len(pat) : s[k + j - 1] = pat[j]

\* `pat in s`
Contains(s, pat) == \E k \in 1..(Len(s) - Len(pat) + 1) : IsPrefixAt(s, pat, k)

EndsWith(s, pat) == Len(s) >= Len(pat) /\ IsPrefixAt(s, pat, Len(s) - Len(pat) + 1)

DropFirst(s, n) == SubSeq(s, n + 1, Len(s))

RECURSIVE LStripSet(_, _)
LStripSet(s, cs) ==
    IF s # <<>> /\ Head(s) \in cs THEN LStripSet(Tail(s), cs) ELSE s

RECURSIVE RStripSet(_, _)
RStripSet(s, cs) ==
    IF s # <<>> /\ s[Len(s)] \in cs THEN RStripSet(SubSeq(s, 1, Len(s) - 1), cs) ELSE s

Strip(s) == LStripSet(RStripSet(s, Whitespace), Whitespace)

\* s.replace(pat, rep): the non-overlapping occurrences, left to right
RECURSIVE ReplaceAll(_, _, _)
ReplaceAll(s, pat, rep) ==
    IF s = <<>> THEN <<>>
    ELSE IF IsPrefixAt(s, pat, 1)
         THEN rep \o ReplaceAll(DropFirst(s, Len(pat)), pat, rep)
         ELSE <<Head(s)>> \o ReplaceAll(Tail(s), pat, rep)

\* s.count(c) for a single character
CountChar(s, c) == Cardinality({k \in 1..Len(s) : s[k] = c})

\* re.sub(r' {2,}', ' ', s)
RECURSIVE CollapseSpaces(_)
CollapseSpaces(s) ==
    IF s = <<>> THEN <<>>
    ELSE IF Head(s) = " "
         THEN <<" ">> \o CollapseSpaces(LStripSet(Tail(s), {" "}))
         ELSE <<Head(s)>> \o CollapseSpaces(Tail(s))

\* re.match of a fixed-shape pattern at the start of s; "\\d" in the shape is \d
MatchShape(s, shape) ==
    /\ Len(s) >= Len(shape)
    /\ \A k \in 1..Len(shape) :
          IF shape[k] = "\\d" THEN s[k] \in Digits ELSE s[k] = shape[k]

RECURSIVE SumSeq(_)
SumSeq(s) == IF s = <<>> THEN 0 ELSE Head(s) + SumSeq(Tail(s))

RECURSIVE Flatten(_)
Flatten(ss) == IF ss = <<>> THEN <<>> ELSE Head(ss) \o Flatten(Tail(ss))

StrBytes(s) == SumSeq([k \in 1..Len(s) |-> Utf8Len(s[k])])

----------------------------------------------------------------------------
(* Files                                                                   *)

\* open(output_file, 'w').writelines(ls) followed by readlines(): the text is
\* the concatenation of ls, cut after every "NL".  No cleaning step puts an
\* "NL" anywhere but at the end of a line, so a line without one is joined to
\* the line after it and an empty string disappears.
RECURSIVE JoinLines(_, _)
JoinLines(ls, cur) ==
    IF ls = <<>> THEN (IF cur = <<>> THEN <<>> ELSE <<cur>>)
    ELSE LET l == cur \o Head(ls)
         IN  IF l # <<>> /\ l[Len(l)] = "NL"
             THEN <<l>> \o JoinLines(Tail(ls), <<>>)
             ELSE JoinLines(Tail(ls), l)

WriteLines(ls) == JoinLines(ls, <<>>)

\* os.path.getsize and len(f.read())
FileBytes(ls) == SumSeq([k \in 1..Len(ls) |-> StrBytes(ls[k])])
FileChars(ls) == SumSeq([k \in 1..Len(ls) |-> Len(ls[k])])

----------------------------------------------------------------------------
(* The cleaning steps (cleaning.py).  Each takes the lines readlines()     *)
(* returned and gives the lines of the output file and the metrics dict.   *)

\* r'^\[\d{2}/\d{2}/\d{2}, \d{2}:\d{2}:\d{2}\]'
timestamp_pattern_bracket ==
    <<"[", "\\d", "\\d", "/", "\\d", "\\d", "/", "\\d", "\\d", ",", " ",
      "\\d", "\\d", ":", "\\d", "\\d", ":", "\\d", "\\d", "]">>

\* r'^\d{2}/\d{2}/\d{2} \d{2}:\d{2}:\d{2}'
timestamp_pattern_plain ==
    <<"\\d", "\\d", "/", "\\d", "\\d", "/", "\\d", "\\d", " ",
      "\\d", "\\d", ":", "\\d", "\\d", ":", "\\d", "\\d">>

media_patterns ==
    { <<"<", "a", "t", "t", "a", "c", "h", "e", "d", ":">>,
      <<"a", "u", "d", "i", "o", " ", "o", "m", "i", "t", "t", "e", "d">>,
      <<"i", "m", "a", "g", "e", " ", "o", "m", "i", "t", "t", "e", "d">>,
      <<"v", "i", "d", "e", "o", " ", "o", "m", "i", "t", "t", "e", "d">>,
      <<"s", "t", "i", "c", "k", "e", "r", " ", "o", "m", "i", "t", "t", "e", "d">>,
      <<"G", "I", "F", " ", "o", "m", "i", "t", "t", "e", "d">>,
      <<"d", "o", "c", "u", "m", "e", "n", "t", " ", "o", "m", "i", "t", "t", "e", "d">> }

HasMedia(s) == \E p \in media_patterns : Contains(s, p)

remove_u200e(ls) ==
    [lines   |-> WriteLines([k \in 1..Len(ls) |-> SelectSeq(ls[k], LAMBDA c : c # "LRM")]),
     metrics |-> [caracteres_removidos |->
                     SumSeq([k \in 1..Len(ls) |-> CountChar(ls[k], "LRM")])]]

\* the set `skip` of remove_empty_timestamps, as 1-based line numbers
EmptyTimestampSkip(ls) ==
    { k \in 1..(Len(ls) - 2) :
        LET curr  == Strip(ls[k])
            next1 == Strip(ls[k + 1])
            next2 == Strip(ls[k + 2])
        IN  /\ MatchShape(curr, timestamp_pattern_bracket)
            /\ EndsWith(curr, <<":">>)
            /\ MatchShape(next1, timestamp_pattern_bracket)
            /\ HasMedia(next1)
            /\ MatchShape(next2, timestamp_pattern_bracket)
            /\ HasMedia(next2) }

\* [l for i, l in enumerate(ls) if i not in skip]
RECURSIVE KeepNotIn(_, _, _)
KeepNotIn(ls, skip, k) ==
    IF k > Len(ls) THEN <<>>
    ELSE (IF k \in skip THEN <<>> ELSE <<ls[k]>>) \o KeepNotIn(ls, skip, k + 1)

remove_empty_timestamps(ls) ==
    LET skip == EmptyTimestampSkip(ls)
    IN  [lines   |-> WriteLines(KeepNotIn(ls, skip, 1)),
         metrics |-> [linhas_removidas |-> Cardinality(skip)]]

remove_empty_lines(ls) ==
    LET cleaned == SelectSeq(ls, LAMBDA l : l # <<"NL">>)
    IN  [lines   |-> WriteLines(cleaned),
         metrics |-> [linhas_removidas |-> Len(ls) - Len(cleaned)]]

\* the body of normalize_whitespace's loop
NormalizeWhitespaceLine(l) ==
    LET line    == RStripSet(l, Whitespace) \o <<"NL">>
        indent  == Len(line) - Len(LStripSet(line, Whitespace))
        rest    == CollapseSpaces(ReplaceAll(DropFirst(line, indent), <<"TAB">>, <<" ">>))
    IN  SubSeq(line, 1, indent) \o rest

normalize_whitespace(ls) ==
    LET cleaned == [k \in 1..Len(ls) |-> NormalizeWhitespaceLine(ls[k])]
    IN  [lines   |-> WriteLines(cleaned),
         metrics |-> [bytes_economizados |-> FileBytes(ls) - FileBytes(cleaned)]]

\* mapping = {'Marlon': 'P1', 'Lê \U0001F5A4': 'P2'}, in this order
NameMarlon == <<"]", " ", "M", "a", "r", "l", "o", "n", ":">>
AnonMarlon == <<"]", " ", "P", "1", ":">>
NameLe     == <<"]", " ", "L", "e^", " ", "HEART", ":">>
AnonLe     == <<"]", " ", "P", "2", ":">>

\* the line after the Marlon pass, and after both passes
AnonymizeMarlon(l) ==
    IF Contains(l, NameMarlon) THEN ReplaceAll(l, NameMarlon, AnonMarlon) ELSE l
AnonymizeLine(l) ==
    LET l1 == AnonymizeMarlon(l)
    IN  IF Contains(l1, NameLe) THEN ReplaceAll(l1, NameLe, AnonLe) ELSE l1

anonymize_participants(ls) ==
    [lines   |-> WriteLines([k \in 1..Len(ls) |-> AnonymizeLine(ls[k])]),
     metrics |-> [substituicoes |->
        [Marlon |-> Cardinality({k \in 1..Len(ls) : Contains(ls[k], NameMarlon)}),
         Le     |-> Cardinality({k \in 1..Len(ls) :
                                    Contains(AnonymizeMarlon(ls[k]), NameLe)})]]]

\* f"{match.group(1)} {match.group(2)}" + line[len(match.group(0)):]
OptimizeTimestampLine(l) ==
    IF MatchShape(l, timestamp_pattern_bracket)
    THEN SubSeq(l, 2, 9) \o <<" ">> \o SubSeq(l, 12, 19)
            \o DropFirst(l, Len(timestamp_pattern_bracket))
    ELSE l

optimize_timestamps(ls) ==
    [lines   |-> WriteLines([k \in 1..Len(ls) |-> OptimizeTimestampLine(ls[k])]),
     metrics |-> [timestamps_otimizados |->
        Cardinality({k \in 1..Len(ls) : MatchShape(ls[k], timestamp_pattern_bracket)})]]

NormalizeIndentationLine(l) ==
    IF MatchShape(l, timestamp_pattern_plain) THEN l ELSE LStripSet(l, {" ", "TAB"})

normalize_indentation(ls) ==
    LET res == [k \in 1..Len(ls) |-> NormalizeIndentationLine(ls[k])]
    IN  [lines   |-> WriteLines(res),
         metrics |-> [espacos_removidos |-> FileChars(ls) - FileChars(res)]]

\* the keys of CLEANING_STEPS, in the dict's order
CLEANING_STEPS ==
    <<"u200e", "empty_timestamps", "empty_lines", "whitespace", "anonymize",
      "timestamps", "indentation">>

StepIds == {CLEANING_STEPS[k] : k \in 1..Len(CLEANING_STEPS)}

\* CLEANING_STEPS[step_id]['function'] applied to the lines of its input
StepFunction(id, ls) ==
    CASE id = "u200e"            -> remove_u200e(ls)
      [] id = "empty_timestamps" -> remove_empty_timestamps(ls)
      [] id = "empty_lines"      -> remove_empty_lines(ls)
      [] id = "whitespace"       -> normalize_whitespace(ls)
      [] id = "anonymize"        -> anonymize_participants(ls)
      [] id = "timestamps"       -> optimize_timestamps(ls)
      [] id = "indentation"      -> normalize_indentation(ls)


----------------------------------------------------------------------------
(* Auditing (utils/audit.py)                                               *)

\* get_file_stats; total_lines is len(content.splitlines())
get_file_stats(path) ==
    [path        |-> path,
     size_bytes  |-> FileBytes(fs[path].lines),
     total_lines |-> Len(fs[path].lines),
     total_chars |-> FileChars(fs[path].lines)]

\* (delta / size * 100) if size > 0 else 0, kept as the exact fraction num/den
Percent(delta, size) ==
    IF size > 0 THEN [num |-> delta * 100, den |-> size] ELSE [num |-> 0, den |-> 1]

audit_transformation_swapped(input_file, output_file, transformation_name) ==
    LET before == get_file_stats(input_file)
        after  == get_file_stats(output_file)
    IN  [transformation |-> transformation_name,
         input          |-> before,
         output         |-> after,
         delta_lines    |-> before.total_lines - after.total_lines,
         delta_bytes    |-> after.size_bytes - before.size_bytes,
         delta_chars    |-> before.total_chars - after.total_chars,
         delta_percent  |-> Percent(after.size_bytes - before.size_bytes, before.size_bytes),
         lines_match    |-> before.total_lines = after.total_lines]

audit_transformation(input_file, output_file, transformation_name) ==
    LET before == get_file_stats(input_file)
        after  == get_file_stats(output_file)
        delta_bytes == before.size_bytes - after.size_bytes
    IN  [transformation |-> transformation_name,
         input          |-> before,
         output         |-> after,
         delta_lines    |-> before.total_lines - after.total_lines,
         delta_bytes    |-> delta_bytes,
         delta_chars    |-> before.total_chars - after.total_chars,
         delta_percent  |-> Percent(delta_bytes, before.size_bytes),
         lines_match    |-> before.total_lines = after.total_lines]

\* the rows of audit_pipeline's DataFrame
AuditRows(stages) ==
    LET stats == [k \in 1..Len(stages) |-> get_file_stats(stages[k].file)]
    IN  [k \in 1..Len(stages) |->
           [Estagio       |-> stages[k].name,
            Arquivo       |-> stats[k].path,
            Linhas        |-> stats[k].total_lines,
            Chars         |-> stats[k].total_chars,
            Tamanho_bytes |-> stats[k].size_bytes,
            dLinhas |-> IF k > 1 THEN stats[k-1].total_lines - stats[k].total_lines ELSE 0,
            dChars  |-> IF k > 1 THEN stats[k-1].total_chars - stats[k].total_chars ELSE 0,
            dBytes  |-> IF k > 1 THEN stats[k-1].size_bytes - stats[k].size_bytes ELSE 0,
            dPct    |-> IF k > 1
                        THEN Percent(stats[k-1].size_bytes - stats[k].size_bytes,
                                     stats[k-1].size_bytes)
                        ELSE [num |-> 0, den |-> 1]]]

\* the totals with the percentage taken of the previous stage, not the first
AuditTotalsOfPrevious(stages) ==
    LET first == get_file_stats(stages[1].file)
        last  == get_file_stats(stages[Len(stages)].file)
        prev  == get_file_stats(stages[IF Len(stages) > 1 THEN Len(stages) - 1 ELSE 1].file)
    IN  [total_lines    |-> first.total_lines - last.total_lines,
         total_chars    |-> first.total_chars - last.total_chars,
         total_bytes    |-> first.size_bytes - last.size_bytes,
         total_percent  |-> Percent(first.size_bytes - last.size_bytes, prev.size_bytes),
         original_bytes |-> first.size_bytes,
         final_bytes    |-> last.size_bytes]

\* the totals dict of audit_pipeline: stats[0] against stats[-1]
AuditTotals(stages) ==
    LET first == get_file_stats(stages[1].file)
        last  == get_file_stats(stages[Len(stages)].file)
        total_bytes == first.size_bytes - last.size_bytes
    IN  [total_lines    |-> first.total_lines - last.total_lines,
         total_chars    |-> first.total_chars - last.total_chars,
         total_bytes    |-> total_bytes,
         total_percent  |-> Percent(total_bytes, first.size_bytes),
         original_bytes |-> first.size_bytes,
         final_bytes    |-> last.size_bytes]

audit_pipeline(stages) == [df |-> AuditRows(stages), totals |-> AuditTotals(stages)]

----------------------------------------------------------------------------
(* run_pipeline (cleaning.py)                                              *)

\* the longest `order` tried
MaxOrderLen == 2

\* raw_file as the caller's own path, and output_dir / f'raw-data_cln{k}.txt'
RawPath    == [dir |-> "data/raw", name |-> "raw-data.txt", k |-> 0]
ClnPath(k) == [dir |-> "output_dir", name |-> "raw-data_cln{k}.txt", k |-> k]

Paths == {RawPath} \cup {ClnPath(k) : k \in 1..MaxOrderLen}

NoFile == [exists |-> FALSE, lines |-> <<>>]

\* CLEANING_STEPS[step_id]['name'] (accents dropped)
StepName(id) ==
    CASE id = "u200e"            -> "Remocao U+200E"
      [] id = "empty_timestamps" -> "Remocao timestamps vazios"
      [] id = "empty_lines"      -> "Remocao linhas vazias"
      [] id = "whitespace"       -> "Normalizacao espacos"
      [] id = "anonymize"        -> "Anonimizacao"
      [] id = "timestamps"       -> "Otimizacao timestamps"
      [] id = "indentation"      -> "Normalizacao indentacao"

\* no validation at all: every id passes
NoInvalidIds(ord) == <<>>
\* invalid_ids = [sid for sid in order if sid not in CLEANING_STEPS]
InvalidIds(ord) == SelectSeq(ord, LAMBDA sid : sid \notin StepIds)

\* every step writes the same file
OutputFileFixed(step_num) == ClnPath(1)
\* output_file = output_dir / f'raw-data_cln{step_num}.txt'
OutputFile(step_num) == ClnPath(step_num)

\* d[key] = value on a dict
DictPut(d, key, value) ==
    [x \in DOMAIN d \cup {key} |-> IF x = key THEN value ELSE d[x]]

EmptyDict == [x \in {} |-> x]

\* lines 302-318: validation, mkdir, previous = raw_file
Validate ==
    /\ pc = "start"
    /\ IF InvalidIds(order) # <<>>
       THEN /\ pc' = "error"
            /\ result' = [status |-> "ValueError", invalid_ids |-> InvalidIds(order)]
            /\ UNCHANGED <<dirExists, previous>>
       ELSE /\ pc' = "loop"
            /\ dirExists' = TRUE
            /\ previous' = raw_file
            /\ UNCHANGED result
    /\ UNCHANGED <<order, raw_file, fs, i, outputs, audits, metrics, step_metrics,
                   calls, rawOriginal>>

\* lines 323-332: one iteration up to the transform.  remove_u200e opens its
\* output for writing while it iterates over its input: when both are the
\* same file it reads nothing.  The other steps read all lines first.
RunStep ==
    /\ pc = "loop"
    /\ i < Len(order)
    /\ LET step_id     == order[i + 1]
           step_num    == i + 1
           output_file == OutputFile(step_num)
           read        == IF step_id = "u200e" /\ previous = output_file
                          THEN <<>> ELSE fs[previous].lines
       IN  IF step_id \notin StepIds
           THEN /\ pc' = "error"
                /\ result' = [status |-> "KeyError", key |-> step_id]
                /\ UNCHANGED <<fs, step_metrics, calls>>
           ELSE IF ~fs[previous].exists
           THEN /\ pc' = "error"
                /\ result' = [status |-> "FileNotFoundError", path |-> previous]
                /\ UNCHANGED <<fs, step_metrics, calls>>
           ELSE /\ fs' = [fs EXCEPT ![output_file] =
                            [exists |-> TRUE, lines |-> StepFunction(step_id, read).lines]]
                /\ step_metrics' = StepFunction(step_id, read).metrics
                /\ calls' = Append(calls, [op |-> "transform", step_num |-> step_num,
                                           step_id |-> step_id,
                                           input |-> previous, output |-> output_file])
                /\ pc' = "audit"
                /\ UNCHANGED result
    /\ UNCHANGED <<order, raw_file, dirExists, i, previous, outputs, audits, metrics,
                   rawOriginal>>

\* lines 334-351: the audit of the iteration, the three dicts, previous
AuditStep ==
    /\ pc = "audit"
    /\ LET step_id     == order[i + 1]
           step_num    == i + 1
           output_file == OutputFile(step_num)
           audit       == audit_transformation(previous, output_file, StepName(step_id))
       IN  /\ outputs' = DictPut(outputs, step_id, output_file)
           /\ audits'  = DictPut(audits, step_id, audit)
           /\ metrics' = DictPut(metrics, step_id, step_metrics)
           /\ calls' = Append(calls, [op |-> "audit", step_num |-> step_num,
                                      step_id |-> step_id,
                                      input |-> previous, output |-> output_file])
           /\ previous' = output_file
    /\ i' = i + 1
    /\ pc' = "loop"
    /\ UNCHANGED <<order, raw_file, fs, dirExists, step_metrics, result, rawOriginal>>

\* lines 353-359: the stages of the consolidated audit
Stages ==
    <<[file |-> raw_file, name |-> "Original (raw-data.txt)"]>> \o
    [k \in 1..Len(order) |-> [file |-> outputs[order[k]], name |-> StepName(order[k])]]

\* lines 353-377: the consolidated audit and the returned dict
Finish ==
    /\ pc = "loop"
    /\ i = Len(order)
    /\ IF \E k \in 1..Len(Stages) : ~fs[Stages[k].file].exists
       THEN /\ pc' = "error"
            /\ result' = [status |-> "FileNotFoundError", path |-> raw_file]
       ELSE /\ pc' = "done"
            /\ result' = [status       |-> "returned",
                          outputs      |-> outputs,
                          audits       |-> audits,
                          metrics      |-> metrics,
                          order        |-> order,
                          df_audit     |-> audit_pipeline(Stages).df,
                          totals       |-> audit_pipeline(Stages).totals,
                          final_output |-> previous]
    /\ UNCHANGED <<order, raw_file, fs, dirExists, i, previous, outputs, audits, metrics,
                   step_metrics, calls, rawOriginal>>

----------------------------------------------------------------------------
(* Sample text                                                             *)

BracketTs  == <<"[", "2", "8", "/", "1", "1", "/", "2", "4", ",", " ",
                "1", "9", ":", "3", "0", ":", "0", "5", "]">>
PlainTs    == <<"2", "8", "/", "1", "1", "/", "2", "4", " ",
                "1", "9", ":", "3", "0", ":", "0", "5">>
Marlon     == <<"M", "a", "r", "l", "o", "n">>
LeHeart    == <<"L", "e^", " ", "HEART">>
AttachedA  == <<"<", "a", "t", "t", "a", "c", "h", "e", "d", ":", "a", ">">>
GifOmitted == <<"G", "I", "F", " ", "o", "m", "i", "t", "t", "e", "d">>

\* an export as WhatsApp writes it: an empty-timestamp line, two media lines,
\* an empty line and an indented continuation line without final line feed
RawChat ==
    << BracketTs \o <<" ">> \o Marlon \o <<":", " ", "LRM", "NL">>,
       BracketTs \o <<" ">> \o Marlon \o <<":", " ", "LRM">> \o AttachedA \o <<"NL">>,
       BracketTs \o <<" ">> \o LeHeart \o <<":", " ">> \o GifOmitted \o <<"NL">>,
       <<"NL">>,
       <<" ", " ", "a", " ", "TAB", " ", "b", " ", " ">> >>

\* the raw files tried: missing, empty, one empty line, the export
RawFiles ==
    { NoFile,
      [exists |-> TRUE, lines |-> <<>>],
      [exists |-> TRUE, lines |-> <<<<"NL">>>>],
      [exists |-> TRUE, lines |-> RawChat] }

----------------------------------------------------------------------------
(* The specification of run_pipeline                                       *)

RECURSIVE SeqsUpTo(_, _)
SeqsUpTo(S, n) ==
    IF n = 0 THEN {<<>>}
    ELSE LET shorter == SeqsUpTo(S, n - 1)
         IN  shorter \cup {Append(q, x) : q \in {r \in shorter : Len(r) = n - 1}, x \in S}

\* every list of at most MaxOrderLen ids, registered or not, repeated or not
Orders == SeqsUpTo(StepIds \cup {"bogus"}, MaxOrderLen)

StepIdle ==
    /\ stepId = "" /\ stepIn = <<>> /\ stepOut = <<>> /\ stepOut2 = <<>> /\ stepPc = "idle"
ParseIdle ==
    /\ lines = <<>> /\ line_num = 0 /\ messages = <<>>
    /\ current_message = [open |-> FALSE]
    /\ df = <<>> /\ chat = <<>> /\ parsePc = "idle"
ClassIdle ==
    /\ content = <<>> /\ tipo_mensagem = "" /\ classPc = "idle"
    /\ content_recased = <<>> /\ tipo_recased = ""
WrangleIdle ==
    /\ heap = <<>> /\ wdf = 0
    /\ media_dir = [given |-> FALSE] /\ transcription_file = [given |-> FALSE]
    /\ wstep = 0 /\ wfiles = <<>> /\ woutputs = <<>>
    /\ wcalls = <<>> /\ wwrites = <<>> /\ wpc = "idle"

BatchIdle ==
    /\ MEDIA_DIR = [exists |-> FALSE, files |-> <<>>]
    /\ COMPLETE_FILE = [exists |-> FALSE, rows |-> <<>>]
    /\ PROGRESS_FILE = [exists |-> FALSE, rows |-> <<>>]
    /\ tdf = <<>> /\ is_complete = FALSE /\ df_pending = <<>> /\ processed = 0
    /\ run = 0 /\ kills = 0 /\ loaded = <<>> /\ api_calls = <<>> /\ file_ops = <<>>
    /\ tpc = "idle"

PipeIdle ==
    /\ order = <<>> /\ raw_file = RawPath /\ fs = [p \in Paths |-> NoFile]
    /\ dirExists = FALSE /\ pc = "idle" /\ i = 0 /\ previous = RawPath
    /\ outputs = EmptyDict /\ audits = EmptyDict /\ metrics = EmptyDict
    /\ step_metrics = EmptyDict /\ result = [status |-> "none"]
    /\ calls = <<>> /\ rawOriginal = <<>>

Init ==
    /\ order \in Orders
    /\ raw_file = RawPath
    /\ \E f \in RawFiles :
          /\ fs = [p \in Paths |-> IF p = RawPath THEN f ELSE NoFile]
          /\ rawOriginal = f.lines
    /\ dirExists = FALSE
    /\ pc = "start"
    /\ i = 0
    /\ previous = RawPath
    /\ outputs = EmptyDict /\ audits = EmptyDict /\ metrics = EmptyDict
    /\ step_metrics = EmptyDict
    /\ result = [status |-> "none"]
    /\ calls = <<>>
    /\ StepIdle /\ ParseIdle /\ ClassIdle /\ WrangleIdle /\ BatchIdle

Next ==
    \/ Validate /\ UNCHANGED <<stepVars, parseVars, classVars, wrangleVars, batchVars>>
    \/ RunStep /\ UNCHANGED <<stepVars, parseVars, classVars, wrangleVars, batchVars>>
    \/ AuditStep /\ UNCHANGED <<stepVars, parseVars, classVars, wrangleVars, batchVars>>
    \/ Finish /\ UNCHANGED <<stepVars, parseVars, classVars, wrangleVars, batchVars>>

Spec == Init /\ [][Next]_vars

----------------------------------------------------------------------------
(* Claims about run_pipeline                                               *)

HasInvalidId == \E k \in 1..Len(order) : order[k] \notin StepIds

\* C1: when order holds an id that is not registered, run_pipeline fails with
\* a ValueError that lists exactly the unregistered ids of order, in order,
\* and it has then run no transform, written no raw-data_cln{k}.txt and not
\* even created output_dir; such a run never gets past the validation.
C1_InvalidIdsFailAtomically ==
    HasInvalidId =>
        /\ pc \in {"start", "error"}
        /\ calls = <<>>
        /\ \A k \in 1..MaxOrderLen : ~fs[ClnPath(k)].exists
        /\ ~dirExists
        /\ fs[raw_file].lines = rawOriginal
        /\ pc = "error" =>
              /\ result.status = "ValueError"
              /\ result.invalid_ids = SelectSeq(order, LAMBDA sid : sid \notin StepIds)
              /\ result.invalid_ids # <<>>

\* an order whose first id is registered and whose second is not has failed
C1_Witness ==
    /\ pc = "error"
    /\ result.status = "ValueError"
    /\ Len(order) = 2
    /\ order[1] \in StepIds
    /\ order[2] \notin StepIds

\* C2: the calls run_pipeline makes are, in this order, transform 1, audit 1,
\* transform 2, audit 2, ...; step k is order[k], reads raw_file when k = 1
\* and raw-data_cln{k-1}.txt otherwise, and writes raw-data_cln{k}.txt, whose
\* content is the step's function applied to the file it read; a transform
\* never starts while an audit is outstanding; final_output is the file the
\* last step wrote.
C2_StepsChainInOrder ==
    /\ \A n \in 1..Len(calls) :
          LET c == calls[n]
          IN  /\ c.step_num = (n + 1) \div 2
              /\ c.op = (IF n % 2 = 1 THEN "transform" ELSE "audit")
              /\ c.step_id = order[c.step_num]
              /\ c.input = (IF c.step_num = 1 THEN raw_file ELSE ClnPath(c.step_num - 1))
              /\ c.output = ClnPath(c.step_num)
              /\ fs[c.output].exists
              /\ fs[c.output].lines = StepFunction(c.step_id, fs[c.input].lines).lines
    /\ pc = "audit" <=> Len(calls) % 2 = 1
    /\ pc = "done" =>
          /\ Len(calls) = 2 * Len(order)
          /\ order # <<>> => result.final_output = ClnPath(Len(order))

\* a run of two different steps has returned, and the second changed its input
C2_Witness ==
    /\ pc = "done"
    /\ Len(order) = 2
    /\ order[1] # order[2]
    /\ fs[ClnPath(1)].lines # rawOriginal
    /\ fs[ClnPath(2)].lines # fs[ClnPath(1)].lines

NoDuplicates(ord) == \A a, b \in 1..Len(ord) : a # b => ord[a] # ord[b]

RECURSIVE SumDeltaBytes(_, _)
SumDeltaBytes(d, keys) ==
    IF keys = {} THEN 0
    ELSE LET x == CHOOSE y \in keys : TRUE
         IN  d[x].delta_bytes + SumDeltaBytes(d, keys \ {x})

\* C3: when run_pipeline returns for an order without repeated ids, the sum
\* of the delta_bytes of the returned audits equals totals.total_bytes,
\* which equals the size of raw_file minus the size of final_output.
C3_AuditAdditivity ==
    pc = "done" /\ NoDuplicates(order) =>
        /\ SumDeltaBytes(result.audits, DOMAIN result.audits) = result.totals.total_bytes
        /\ result.totals.total_bytes =
              FileBytes(rawOriginal) - FileBytes(fs[result.final_output].lines)

\* two different steps ran, each changed the size, and so did the run
C3_Witness ==
    /\ pc = "done"
    /\ Len(order) = 2
    /\ NoDuplicates(order)
    /\ \A id \in DOMAIN result.audits : result.audits[id].delta_bytes # 0
    /\ result.totals.total_bytes # 0

\* p is delta / den * 100, and 0 when den is 0
IsPercentOf(p, delta, den) ==
    IF den = 0 THEN p.num = 0 /\ p.den # 0
    ELSE p.den # 0 /\ p.num * den = delta * 100 * p.den

\* C4: in the returned dict every audit's delta_percent is its delta_bytes
\* over the size of the file the step read, times 100; totals.total_percent
\* is total_bytes over the size of the original raw file, times 100; a
\* denominator of 0 gives 0.  For an order without repeated ids the rows of
\* df_audit say the same as the audits.
C4_PercentDenominators ==
    pc = "done" =>
        /\ \A id \in DOMAIN result.audits :
              LET a == result.audits[id]
              IN  /\ a.delta_bytes = FileBytes(fs[a.input.path].lines)
                                       - FileBytes(fs[a.output.path].lines)
                  /\ IsPercentOf(a.delta_percent, a.delta_bytes,
                                 FileBytes(fs[a.input.path].lines))
        /\ result.totals.total_bytes =
              FileBytes(rawOriginal) - FileBytes(fs[result.final_output].lines)
        /\ IsPercentOf(result.totals.total_percent, result.totals.total_bytes,
                       FileBytes(rawOriginal))
        /\ NoDuplicates(order) =>
              \A k \in 1..Len(order) :
                 result.df_audit[k + 1].dPct = result.audits[order[k]].delta_percent

\* a run on a raw file of positive size in which a later step read an empty
\* file, and whose total is not the last step's percentage
C4_Witness ==
    /\ pc = "done"
    /\ FileBytes(rawOriginal) > 0
    /\ Len(order) = 2
    /\ result.audits[order[2]].input.size_bytes = 0
    /\ result.totals.total_percent # result.audits[order[2]].delta_percent

----------------------------------------------------------------------------
(* One cleaning step applied to a file, and again to its own output        *)

\* the longest file tried, in lines
MaxStepLines == 4

\* line bodies: an empty-timestamp line, a media line, a line with tab
\* indentation, inner blanks, U+200E and trailing blanks, an empty line, an
\* indented line that starts with an optimized timestamp, a message whose
\* text is "] Marlon:"
StepLinePool ==
    { BracketTs \o <<" ">> \o Marlon \o <<":">>,
      BracketTs \o <<" ">> \o LeHeart \o <<":", " ">> \o NameMarlon,
      BracketTs \o <<" ">> \o LeHeart \o <<":", " ">> \o GifOmitted,
      <<" ", "TAB", "a", " ", " ", "b", "LRM", " ">>,
      <<>>,
      <<" ", " ">> \o PlainTs \o <<" ", "x">> }

\* the files of at most MaxStepLines lines of the pool, the last line with or
\* without its line feed
StepFiles ==
    LET bodies == SeqsUpTo(StepLinePool, MaxStepLines)
        full(b) == [k \in 1..Len(b) |-> b[k] \o <<"NL">>]
        open(b) == [k \in 1..Len(b) |-> IF k = Len(b) THEN b[k] ELSE b[k] \o <<"NL">>]
    IN  {full(b) : b \in bodies} \cup
        {open(b) : b \in {c \in bodies : c # <<>> /\ c[Len(c)] # <<>>}}

StepInit ==
    /\ stepId \in StepIds
    /\ stepIn \in StepFiles
    /\ stepOut = <<>> /\ stepOut2 = <<>>
    /\ stepPc = "start"
    /\ PipeIdle /\ ParseIdle /\ ClassIdle /\ WrangleIdle /\ BatchIdle

\* S(F)
ApplyOnce ==
    /\ stepPc = "start"
    /\ stepOut' = StepFunction(stepId, stepIn).lines
    /\ stepPc' = "once"
    /\ UNCHANGED <<stepId, stepIn, stepOut2>>

\* S(S(F))
ApplyAgain ==
    /\ stepPc = "once"
    /\ stepOut2' = StepFunction(stepId, stepOut).lines
    /\ stepPc' = "twice"
    /\ UNCHANGED <<stepId, stepIn, stepOut>>

StepNext ==
    \/ ApplyOnce /\ UNCHANGED <<pipeVars, parseVars, classVars, wrangleVars, batchVars>>
    \/ ApplyAgain /\ UNCHANGED <<pipeVars, parseVars, classVars, wrangleVars, batchVars>>

SpecStep == StepInit /\ [][StepNext]_vars

\* C5: for each of the seven steps S and every file F, S(S(F)) = S(F).
C5_EveryStepIdempotent == stepPc = "twice" => stepOut2 = stepOut

\* the six steps other than empty_timestamps are idempotent
C5_OtherStepsIdempotent ==
    stepPc = "twice" /\ stepId # "empty_timestamps" => stepOut2 = stepOut

----------------------------------------------------------------------------
(* parse_to_dataframe and the chat_complete.txt of export_corpus_files     *)
(* (wrangling.py)                                                          *)

\* the least k >= 1 such that s[k+1], s[k+2] is ": " (0 when there is none):
\* where the lazy group (.+?) of message_pattern ends
SenderEnd(s) ==
    LET ends == {k \in 1..(Len(s) - 2) : s[k + 1] = ":" /\ s[k + 2] = " "}
    IN  IF ends = {} THEN 0 ELSE CHOOSE k \in ends : \A m \in ends : k <= m

\* re.match(r'^(\d{2}/\d{2}/\d{2}) (\d{2}:\d{2}:\d{2}) (.+?): (.*)$', line)
\* for a line without "NL": whether it matches, and the four groups
MatchMessage(line) ==
    IF /\ MatchShape(line, timestamp_pattern_plain)
       /\ Len(line) > Len(timestamp_pattern_plain)
       /\ line[Len(timestamp_pattern_plain) + 1] = " "
       /\ SenderEnd(DropFirst(line, Len(timestamp_pattern_plain) + 1)) > 0
    THEN LET rest == DropFirst(line, Len(timestamp_pattern_plain) + 1)
             k    == SenderEnd(rest)
         IN  [ok        |-> TRUE,
              data      |-> SubSeq(line, 1, 8),
              hora      |-> SubSeq(line, 10, 17),
              remetente |-> SubSeq(rest, 1, k),
              conteudo  |-> DropFirst(rest, k + 2)]
    ELSE [ok |-> FALSE]

\* the dict of a new message, numbered from 0 instead of from 1
NewMessageZeroBased(n, m) ==
    [open |-> TRUE, linha_original |-> n - 1, data |-> m.data, hora |-> m.hora,
     remetente |-> m.remetente, conteudo |-> m.conteudo]
\* lines 57-63: the dict of a new message; n is line_num
NewMessage(n, m) ==
    [open |-> TRUE, linha_original |-> n, data |-> m.data, hora |-> m.hora,
     remetente |-> m.remetente, conteudo |-> m.conteudo]

\* line 67: current_message['conteudo'] += '\n' + line
ContinueMessage(cur, line) == [cur EXCEPT !.conteudo = @ \o <<"NL">> \o line]

\* a row as appended to `messages`
Row(cur) ==
    [linha_original |-> cur.linha_original, data |-> cur.data, hora |-> cur.hora,
     remetente |-> cur.remetente, conteudo |-> cur.conteudo]

\* lines 47-67: one iteration of the loop over the lines
ParseLine ==
    /\ parsePc = "scan"
    /\ line_num < Len(lines)
    /\ LET n     == line_num + 1
           line  == RStripSet(lines[n], {"NL"})
           match == MatchMessage(line)
       IN  /\ line_num' = n
           /\ IF match.ok
              THEN /\ messages' = IF current_message.open
                                  THEN Append(messages, Row(current_message))
                                  ELSE messages
                   /\ current_message' = NewMessage(n, match)
              ELSE /\ current_message' = IF current_message.open
                                         THEN ContinueMessage(current_message, line)
                                         ELSE current_message
                   /\ UNCHANGED messages
    /\ UNCHANGED <<lines, df, chat, parsePc>>

DigitValue(c) ==
    CASE c = "0" -> 0 [] c = "1" -> 1 [] c = "2" -> 2 [] c = "3" -> 3 [] c = "4" -> 4
      [] c = "5" -> 5 [] c = "6" -> 6 [] c = "7" -> 7 [] c = "8" -> 8 [] c = "9" -> 9

DigitChar(n) == <<"0", "1", "2", "3", "4", "5", "6", "7", "8", "9">>[n + 1]

\* the number written by the two digits s[k], s[k+1]
TwoDigits(s, k) == 10 * DigitValue(s[k]) + DigitValue(s[k + 1])

IsLeapYear(y) == (y % 4 = 0 /\ y % 100 # 0) \/ y % 400 = 0

DaysInMonth(y, m) ==
    IF m = 2 THEN (IF IsLeapYear(y) THEN 29 ELSE 28)
    ELSE IF m \in {4, 6, 9, 11} THEN 30 ELSE 31

\* pd.to_datetime(data + ' ' + hora, format='%d/%m/%y %H:%M:%S') of one row:
\* %y is 2000-2068 for 00-68 and 1969-1999 for 69-99; a field out of range
\* is an error.  (The inputs below hold no second above 59, where strptime
\* implementations differ.)
ToDatetime(data, hora) ==
    LET d  == TwoDigits(data, 1)
        mo == TwoDigits(data, 4)
        yy == TwoDigits(data, 7)
        y  == IF yy < 69 THEN 2000 + yy ELSE 1900 + yy
        h  == TwoDigits(hora, 1)
        mi == TwoDigits(hora, 4)
        sec == TwoDigits(hora, 7)
    IN  IF /\ mo \in 1..12
           /\ d >= 1 /\ d <= DaysInMonth(y, mo)
           /\ h <= 23 /\ mi <= 59 /\ sec <= 59
        THEN [valid |-> TRUE, year |-> y, month |-> mo, day |-> d,
              hour |-> h, minute |-> mi, second |-> sec]
        ELSE [valid |-> FALSE]

WithTimestamp(msg) ==
    [linha_original |-> msg.linha_original, data |-> msg.data, hora |-> msg.hora,
     remetente |-> msg.remetente, conteudo |-> msg.conteudo,
     timestamp |-> ToDatetime(msg.data, msg.hora)]

\* errors='coerce' and dropna: rows with an unparsable timestamp are left out
BuildFrameSkippingInvalid(msgs) ==
    [status |-> "returned",
     rows   |-> SelectSeq([k \in 1..Len(msgs) |-> WithTimestamp(msgs[k])],
                          LAMBDA r : r.timestamp.valid)]
\* lines 73-81: pd.DataFrame(messages) and the timestamp column.  An empty
\* list gives a frame without columns, and df['data'] raises KeyError; one
\* unparsable timestamp makes pd.to_datetime raise ValueError.
BuildFrame(msgs) ==
    IF msgs = <<>> THEN [status |-> "KeyError", rows |-> <<>>]
    ELSE IF \E k \in 1..Len(msgs) : ~ToDatetime(msgs[k].data, msgs[k].hora).valid
    THEN [status |-> "ValueError", rows |-> <<>>]
    ELSE [status |-> "returned", rows |-> [k \in 1..Len(msgs) |-> WithTimestamp(msgs[k])]]

\* lines 69-81: the flush of the last message, the DataFrame, the return
FinishParse ==
    /\ parsePc = "scan"
    /\ line_num = Len(lines)
    /\ LET all == IF current_message.open
                  THEN Append(messages, Row(current_message)) ELSE messages
       IN  /\ messages' = all
           /\ parsePc' = BuildFrame(all).status
           /\ df' = BuildFrame(all).rows
    /\ UNCHANGED <<lines, line_num, current_message, chat>>

\* two digits, without the leading zero
TwoDigitStringUnpadded(n) ==
    IF n < 10 THEN <<DigitChar(n)>> ELSE <<DigitChar(n \div 10), DigitChar(n % 10)>>
\* %d, %m, %y, %H, %M, %S of strftime: two digits, zero-padded
TwoDigitString(n) == <<DigitChar(n \div 10), DigitChar(n % 10)>>

\* row['timestamp'].strftime('%d/%m/%y') and .strftime('%H:%M:%S')
StrftimeDate(t) ==
    TwoDigitString(t.day) \o <<"/">> \o TwoDigitString(t.month) \o <<"/">>
        \o TwoDigitString(t.year % 100)
StrftimeTime(t) ==
    TwoDigitString(t.hour) \o <<":">> \o TwoDigitString(t.minute) \o <<":">>
        \o TwoDigitString(t.second)

\* f.readlines() of a file holding `text`: cut after every "NL"
ReadLines(text) ==
    LET nl       == {k \in 1..Len(text) : text[k] = "NL"}
        n        == Cardinality(nl)
        pos(j)   == CHOOSE p \in nl : Cardinality({q \in nl : q < p}) = j - 1
        start(j) == IF j = 1 THEN 1 ELSE pos(j - 1) + 1
        last     == IF n = 0 THEN 0 ELSE pos(n)
    IN  [j \in 1..n |-> SubSeq(text, start(j), pos(j))] \o
        (IF last < Len(text) THEN <<SubSeq(text, last + 1, Len(text))>> ELSE <<>>)

\* wrangling.py:452-456: the text written to chat_complete.txt for the
\* content column 'conteudo'
ChatText(rows) ==
    Flatten([k \in 1..Len(rows) |->
        StrftimeDate(rows[k].timestamp) \o <<" ">> \o StrftimeTime(rows[k].timestamp)
            \o <<" ">> \o rows[k].remetente \o <<":", " ">> \o rows[k].conteudo
            \o <<"NL">>])

\* export_corpus_files(df, output_dir, use_enriched=False): chat_complete.txt
ExportChat ==
    /\ parsePc = "returned"
    /\ chat' = ReadLines(ChatText(df))
    /\ parsePc' = "exported"
    /\ UNCHANGED <<lines, line_num, messages, current_message, df>>

\* the longest input tried, in lines
MaxParseLines == 3

\* line bodies: a header, a header whose sender and content hold ": ", a
\* header with an empty content dated 29 February 2000, a header dated
\* 29 February 2023 (no such day), a continuation line holding ": ", an
\* empty line, and a timestamp followed by ": " with no sender
ParseLinePool ==
    { <<"0", "5", "/", "0", "1", "/", "2", "4", " ", "0", "7", ":", "0", "8", ":", "0", "9",
        " ", "P", "1", ":", " ", "h", "i">>,
      <<"3", "1", "/", "1", "2", "/", "9", "9", " ", "2", "3", ":", "5", "9", ":", "5", "9",
        " ", "a", ":", "b", ":", " ", "c", ":", " ", "d">>,
      <<"2", "9", "/", "0", "2", "/", "0", "0", " ", "0", "0", ":", "0", "0", ":", "0", "0",
        " ", "P", "2", ":", " ">>,
      <<"2", "9", "/", "0", "2", "/", "2", "3", " ", "1", "9", ":", "3", "0", ":", "0", "5",
        " ", "P", "1", ":", " ", "x">>,
      <<" ", "m", ":", " ", "n">>,
      <<>>,
      PlainTs \o <<" ", ":", " ", "x">> }

ParseFiles ==
    LET bodies == SeqsUpTo(ParseLinePool, MaxParseLines)
        full(b) == [k \in 1..Len(b) |-> b[k] \o <<"NL">>]
        open(b) == [k \in 1..Len(b) |-> IF k = Len(b) THEN b[k] ELSE b[k] \o <<"NL">>]
    IN  {full(b) : b \in bodies} \cup
        {open(b) : b \in {c \in bodies : c # <<>> /\ c[Len(c)] # <<>>}}

ParseInit ==
    /\ lines \in ParseFiles
    /\ line_num = 0
    /\ messages = <<>>
    /\ current_message = [open |-> FALSE]
    /\ df = <<>>
    /\ chat = <<>>
    /\ parsePc = "scan"
    /\ PipeIdle /\ StepIdle /\ ClassIdle /\ WrangleIdle /\ BatchIdle

ParseNext ==
    \/ ParseLine /\ UNCHANGED <<pipeVars, stepVars, classVars, wrangleVars, batchVars>>
    \/ FinishParse /\ UNCHANGED <<pipeVars, stepVars, classVars, wrangleVars, batchVars>>
    \/ ExportChat /\ UNCHANGED <<pipeVars, stepVars, classVars, wrangleVars, batchVars>>

SpecParse == ParseInit /\ [][ParseNext]_vars

----------------------------------------------------------------------------
(* Claims about parse_to_dataframe and the chat export                     *)

\* line k of the input matches the header pattern
IsHeader(k) == MatchMessage(RStripSet(lines[k], {"NL"})).ok

Headers == {k \in 1..Len(lines) : IsHeader(k)}

\* the line number of the j-th header
NthHeader(j) ==
    CHOOSE k \in Headers : Cardinality({h \in Headers : h < k}) = j - 1

\* the last line of the block opened by header k: the line before the next
\* header, or the last line of the input
BlockEnd(k) ==
    IF \E h \in Headers : h > k
    THEN (CHOOSE h \in Headers : h > k /\ \A g \in Headers : g > k => h <= g) - 1
    ELSE Len(lines)

\* the content of header k followed by each line of its block, each preceded
\* by a newline
ExpectedContent(k) ==
    MatchMessage(RStripSet(lines[k], {"NL"})).conteudo \o
    Flatten([n \in 1..(BlockEnd(k) - k) |->
                <<"NL">> \o RStripSet(lines[k + n], {"NL"})])

ExpectedMessage(k) ==
    LET m == MatchMessage(RStripSet(lines[k], {"NL"}))
    IN  [linha_original |-> k, data |-> m.data, hora |-> m.hora,
         remetente |-> m.remetente, conteudo |-> ExpectedContent(k)]

\* C6: once the scan has ended, `messages` holds exactly one message per
\* header line, in file order; each carries the 1-based number of its header
\* line and the header's content followed by every later non-header line up
\* to the next header, each preceded by a newline (the last message
\* included); lines before the first header appear nowhere; and the returned
\* table has these same rows.
C6_OneMessagePerHeader ==
    parsePc # "scan" =>
        /\ Len(messages) = Cardinality(Headers)
        /\ \A j \in 1..Len(messages) : messages[j] = ExpectedMessage(NthHeader(j))
        /\ parsePc \in {"returned", "exported"} =>
              /\ Len(df) = Len(messages)
              /\ \A j \in 1..Len(df) :
                    /\ df[j].linha_original = messages[j].linha_original
                    /\ df[j].remetente = messages[j].remetente
                    /\ df[j].conteudo = messages[j].conteudo

\* a returned parse of three lines: a discarded line, a header, a continuation
C6_Witness ==
    /\ parsePc = "returned"
    /\ Len(lines) = 3 /\ Headers = {2}
    /\ Len(df) = 1 /\ df[1].linha_original = 2
    /\ Contains(df[1].conteudo, <<"NL">>)

\* C7: when the first line is a header, the exported chat_complete.txt is
\* the input line for line (every line ending in a newline): headers are
\* reproduced exactly and continuation lines keep their place.
C7_RoundTrip ==
    parsePc = "exported" /\ 1 \in Headers =>
        chat = [k \in 1..Len(lines) |-> RStripSet(lines[k], {"NL"}) \o <<"NL">>]

\* an exported chat of a header, a continuation line and a second header
C7_Witness ==
    /\ parsePc = "exported"
    /\ Len(lines) = 3 /\ Headers = {1, 3}
    /\ Len(chat) = 3

\* some header line carries digits that are no instant
HasInvalidHeader ==
    \E k \in Headers :
        LET m == MatchMessage(RStripSet(lines[k], {"NL"}))
        IN  ~ToDatetime(m.data, m.hora).valid

\* C8: with a header line whose digits are no valid instant, the parse ends
\* in an error: no table is ever returned and nothing is exported.
C8_InvalidTimestampIsFatal ==
    HasInvalidHeader =>
        /\ parsePc \in {"scan", "ValueError"}
        /\ df = <<>> /\ chat = <<>>

\* the error raised for an input that also holds a valid header
C8_Witness ==
    /\ parsePc = "ValueError"
    /\ HasInvalidHeader
    /\ \E k \in Headers :
          LET m == MatchMessage(RStripSet(lines[k], {"NL"}))
          IN  ToDatetime(m.data, m.hora).valid

----------------------------------------------------------------------------
(* classify_message_type (wrangling.py)                                    *)

UpperLetters ==
    <<"A", "B", "C", "D", "E", "F", "G", "H", "I", "J", "K", "L", "M",
      "N", "O", "P", "Q", "R", "S", "T", "U", "V", "W", "X", "Y", "Z">>
LowerLetters ==
    <<"a", "b", "c", "d", "e", "f", "g", "h", "i", "j", "k", "l", "m",
      "n", "o", "p", "q", "r", "s", "t", "u", "v", "w", "x", "y", "z">>

\* the letter of `to` at the place c has in `from`; c itself when it has none
MapLetter(c, from, to) ==
    IF \E k \in 1..Len(from) : from[k] = c
    THEN to[CHOOSE k \in 1..Len(from) : from[k] = c]
    ELSE c

\* str.lower() and str.upper() on the characters of this model
Lower(s) == [k \in 1..Len(s) |-> MapLetter(s[k], UpperLetters, LowerLetters)]
Upper(s) == [k \in 1..Len(s) |-> MapLetter(s[k], LowerLetters, UpperLetters)]

\* ord(c): exact for the named characters; every other character of this
\* model is ASCII, for which only "at most 127" matters
Ord(c) ==
    CASE c = "LRM" -> 8206
      [] c = "e^" -> 234
      [] c = "HEART" -> 128420
      [] c = "GRIN" -> 128513
      [] OTHER -> 127

PatDeleted ==
    <<"t", "h", "i", "s", " ", "m", "e", "s", "s", "a", "g", "e", " ", "w", "a",
      "s", " ", "d", "e", "l", "e", "t", "e", "d">>
PatEdited ==
    <<"<", "t", "h", "i", "s", " ", "m", "e", "s", "s", "a", "g", "e", " ", "w",
      "a", "s", " ", "e", "d", "i", "t", "e", "d", ">">>
PatVoiceCall == <<"v", "o", "i", "c", "e", " ", "c", "a", "l", "l">>
PatVideoCall == <<"v", "i", "d", "e", "o", " ", "c", "a", "l", "l">>
PatMissed == <<"m", "i", "s", "s", "e", "d">>
PatUndisplayable ==
    <<"t", "h", "i", "s", " ", "m", "e", "s", "s", "a", "g", "e", " ", "c", "a",
      "n", "'", "t", " ", "b", "e", " ", "d", "i", "s", "p", "l", "a", "y", "e",
      "d">>
PatAttached == <<"<", "a", "t", "t", "a", "c", "h", "e", "d", ":">>
PatOmitted == <<" ", "o", "m", "i", "t", "t", "e", "d">>

\* the dict omitted_types, in insertion order
omitted_types ==
    << [pattern  |-> <<"a", "u", "d", "i", "o">> \o PatOmitted,
        msg_type |-> "audio_omitted"],
       [pattern  |-> <<"i", "m", "a", "g", "e">> \o PatOmitted,
        msg_type |-> "image_omitted"],
       [pattern  |-> <<"v", "i", "d", "e", "o">> \o PatOmitted,
        msg_type |-> "video_omitted"],
       [pattern  |-> <<"v", "i", "d", "e", "o", " ", "n", "o", "t", "e">> \o PatOmitted,
        msg_type |-> "video_note_omitted"],
       [pattern  |-> <<"s", "t", "i", "c", "k", "e", "r">> \o PatOmitted,
        msg_type |-> "sticker_omitted"],
       [pattern  |-> <<"g", "i", "f">> \o PatOmitted,
        msg_type |-> "gif_omitted"],
       [pattern  |-> <<"d", "o", "c", "u", "m", "e", "n", "t">> \o PatOmitted,
        msg_type |-> "document_omitted"] >>

\* content_lower = content.lower().strip()
ContentLower(c) == Strip(Lower(c))

\* the condition of the call rule
IsCall(lower) == Contains(lower, PatVoiceCall) \/ Contains(lower, PatVideoCall)

\* the indices of omitted_types whose pattern is found
\* (content_lower == pattern or pattern in content_lower)
OmittedHits(lower) ==
    {k \in 1..Len(omitted_types) :
        lower = omitted_types[k].pattern \/ Contains(lower, omitted_types[k].pattern)}

\* the for loop over omitted_types.items(): the first pattern found
OmittedType(lower) ==
    LET hits == OmittedHits(lower)
    IN  omitted_types[CHOOSE k \in hits : \A m \in hits : k <= m].msg_type

\* the if / elif chain under '<attached:'
AttachedType(lower) ==
    IF \/ Contains(lower, <<"a", "u", "d", "i", "o">>)
       \/ Contains(lower, <<".", "o", "p", "u", "s">>)
       \/ Contains(lower, <<".", "m", "p", "3">>)
    THEN "audio_attached"
    ELSE IF \/ Contains(lower, <<"p", "h", "o", "t", "o">>)
            \/ Contains(lower, <<".", "j", "p", "g">>)
            \/ Contains(lower, <<".", "p", "n", "g">>)
    THEN "image_attached"
    ELSE IF \/ Contains(lower, <<"v", "i", "d", "e", "o">>)
            \/ Contains(lower, <<".", "m", "p", "4">>)
    THEN "video_attached"
    ELSE IF \/ Contains(lower, <<"s", "t", "i", "c", "k", "e", "r">>)
            \/ Contains(lower, <<".", "w", "e", "b", "p">>)
    THEN "sticker_attached"
    ELSE IF Contains(lower, <<".", "v", "c", "f">>)
    THEN "contact_attached"
    ELSE "file_attached"

\* re.search(r'https?://[^\s]+', content): "http", an optional "s", "://" and
\* at least one character that is no whitespace
HasUrl(c) ==
    \E k \in 1..Len(c) :
        \/ /\ IsPrefixAt(c, <<"h", "t", "t", "p", ":", "/", "/">>, k)
           /\ k + 7 <= Len(c) /\ c[k + 7] \notin Whitespace
        \/ /\ IsPrefixAt(c, <<"h", "t", "t", "p", "s", ":", "/", "/">>, k)
           /\ k + 8 <= Len(c) /\ c[k + 8] \notin Whitespace

\* 0x1F600
EmojiThreshold == 128512

\* any(ord(char) > 0x1F600 for char in content)
HasEmoji(c) == \E k \in 1..Len(c) : Ord(c[k]) > EmojiThreshold

\* the chain with the link test moved to the front
classify_link_first(c) ==
    LET lower == ContentLower(c)
    IN  IF HasUrl(c) THEN "text_with_link"
        ELSE IF Contains(lower, PatDeleted) THEN "message_deleted"
        ELSE IF Contains(lower, PatEdited) THEN "message_edited"
        ELSE IF IsCall(lower)
             THEN (IF Contains(lower, PatMissed) THEN "missed_call" ELSE "voice_call")
        ELSE IF Contains(lower, PatUndisplayable) THEN "system_message"
        ELSE IF OmittedHits(lower) # {} THEN OmittedType(lower)
        ELSE IF Contains(lower, PatAttached) THEN AttachedType(lower)
        ELSE IF HasEmoji(c) THEN "text_with_emoji"
        ELSE "text_pure"
\* classify_message_type(content)
classify_message_type(c) ==
    LET lower == ContentLower(c)
    IN  IF Contains(lower, PatDeleted) THEN "message_deleted"
        ELSE IF Contains(lower, PatEdited) THEN "message_edited"
        ELSE IF IsCall(lower)
             THEN (IF Contains(lower, PatMissed) THEN "missed_call" ELSE "voice_call")
        ELSE IF Contains(lower, PatUndisplayable) THEN "system_message"
        ELSE IF OmittedHits(lower) # {} THEN OmittedType(lower)
        ELSE IF Contains(lower, PatAttached) THEN AttachedType(lower)
        ELSE IF HasUrl(c) THEN "text_with_link"
        ELSE IF HasEmoji(c) THEN "text_with_emoji"
        ELSE "text_pure"

\* the most pieces a content is made of
MaxContentAtoms == 2

\* pieces of content: the markers as WhatsApp writes them, attachments,
\* links in both letter cases, an emoji above and one below the threshold,
\* plain text, white space
ContentAtoms ==
    { <<"T", "h", "i", "s", " ", "m", "e", "s", "s", "a", "g", "e", " ", "w", "a",
        "s", " ", "d", "e", "l", "e", "t", "e", "d">>,
      <<"<", "T", "h", "i", "s", " ", "m", "e", "s", "s", "a", "g", "e", " ", "w",
        "a", "s", " ", "e", "d", "i", "t", "e", "d", ">">>,
      <<"M", "i", "s", "s", "e", "d", " ">>,
      <<"v", "o", "i", "c", "e", " ", "c", "a", "l", "l">>,
      <<"T", "h", "i", "s", " ", "m", "e", "s", "s", "a", "g", "e", " ", "c", "a",
        "n", "'", "t", " ", "b", "e", " ", "d", "i", "s", "p", "l", "a", "y", "e",
        "d">>,
      <<"i", "m", "a", "g", "e", " ", "o", "m", "i", "t", "t", "e", "d">>,
      <<"v", "i", "d", "e", "o", " ", "n", "o", "t", "e", " ", "o", "m", "i", "t",
        "t", "e", "d">>,
      <<"G", "I", "F", " ", "o", "m", "i", "t", "t", "e", "d">>,
      <<"<", "a", "t", "t", "a", "c", "h", "e", "d", ":", " ", "a", ".", "o", "p",
        "u", "s", ">">>,
      <<"<", "a", "t", "t", "a", "c", "h", "e", "d", ":", " ", "b", ".", "p", "d",
        "f", ">">>,
      <<"c", ".", "V", "C", "F">>,
      <<"h", "t", "t", "p", ":", "/", "/", "x">>,
      <<"H", "T", "T", "P", "S", ":", "/", "/", "Y">>,
      <<"h", "t", "t", "p", "s", ":", "/", "/">>,
      <<"h", "i">>,
      <<"GRIN">>,
      <<"HEART">>,
      <<" ">>,
      <<"NL">> }

Contents == {Flatten(a) : a \in SeqsUpTo(ContentAtoms, MaxContentAtoms)}

\* content written in another letter case
CaseVariants(c) == {Upper(c), Lower(c)}

ClassInit ==
    /\ content \in Contents
    /\ tipo_mensagem = ""
    /\ content_recased = <<>>
    /\ tipo_recased = ""
    /\ classPc = "start"
    /\ PipeIdle /\ StepIdle /\ ParseIdle /\ WrangleIdle /\ BatchIdle

\* df['conteudo'].apply(classify_message_type) for one content
Classify ==
    /\ classPc = "start"
    /\ tipo_mensagem' = classify_message_type(content)
    /\ classPc' = "classified"
    /\ UNCHANGED <<content, content_recased, tipo_recased>>

\* the same call for the content in another letter case
ClassifyRecased ==
    /\ classPc = "classified"
    /\ \E c \in CaseVariants(content) :
          /\ content_recased' = c
          /\ tipo_recased' = classify_message_type(c)
    /\ classPc' = "recased"
    /\ UNCHANGED <<content, tipo_mensagem>>

ClassNext ==
    \/ Classify /\ UNCHANGED <<pipeVars, stepVars, parseVars, wrangleVars, batchVars>>
    \/ ClassifyRecased /\ UNCHANGED <<pipeVars, stepVars, parseVars, wrangleVars, batchVars>>

SpecClassify == ClassInit /\ [][ClassNext]_vars

----------------------------------------------------------------------------
(* Claims about classify_message_type                                      *)

\* the fixed enumeration of tags
MessageTypes ==
    {"message_deleted", "message_edited", "missed_call", "voice_call",
     "system_message", "audio_omitted", "image_omitted", "video_omitted",
     "video_note_omitted", "sticker_omitted", "gif_omitted", "document_omitted",
     "audio_attached", "image_attached", "video_attached", "sticker_attached",
     "contact_attached", "file_attached", "text_with_link", "text_with_emoji",
     "text_pure"}

\* the condition of rule n, as the function evaluates it
RuleCondition(n, c) ==
    LET lower == ContentLower(c)
    IN  CASE n = 1 -> Contains(lower, PatDeleted)
          [] n = 2 -> Contains(lower, PatEdited)
          [] n = 3 -> IsCall(lower)
          [] n = 4 -> Contains(lower, PatUndisplayable)
          [] n = 5 -> OmittedHits(lower) # {}
          [] n = 6 -> Contains(lower, PatAttached)
          [] n = 7 -> HasUrl(c)
          [] n = 8 -> HasEmoji(c)
          [] n = 9 -> TRUE

\* the tags rule n can give for c
RuleTags(n, c) ==
    LET lower == ContentLower(c)
    IN  CASE n = 1 -> {"message_deleted"}
          [] n = 2 -> {"message_edited"}
          [] n = 3 -> IF Contains(lower, PatMissed)
                      THEN {"missed_call"} ELSE {"voice_call"}
          [] n = 4 -> {"system_message"}
          [] n = 5 -> {omitted_types[k].msg_type : k \in OmittedHits(lower)}
          [] n = 6 -> {"audio_attached", "image_attached", "video_attached",
                       "sticker_attached", "contact_attached", "file_attached"}
          [] n = 7 -> {"text_with_link"}
          [] n = 8 -> {"text_with_emoji"}
          [] n = 9 -> {"text_pure"}

\* the lowest-numbered rule whose condition c satisfies
LowestRule(c) ==
    CHOOSE n \in 1..9 :
        RuleCondition(n, c) /\ \A m \in 1..(n - 1) : ~RuleCondition(m, c)

C10_CaseInsensitive ==
    classPc = "recased" => tipo_recased = tipo_mensagem

----------------------------------------------------------------------------
(* The wrangling stages after parse (wrangling.py)                         *)

\* Python's None (and pandas' NaN in an object column): a value that is no
\* string, written as a one-element sequence holding the name "None"
None == <<"None">>

\* str(None), as an f-string prints it
NoneText == <<"N", "o", "n", "e">>

\* f"{value}" for a string or None
Format(v) == IF v = None THEN NoneText ELSE v

MinOf(S) == CHOOSE x \in S : \A y \in S : x <= y
MaxOf(S) == CHOOSE x \in S : \A y \in S : x >= y

\* the end of the lazy group (.+?) that starts at `start` and is followed by
\* ">": the position of the first ">" after at least one character, no
\* character of the group being a line feed; 0 when there is none
GroupEnd(c, start) ==
    LET es == {e \in (start + 1)..Len(c) :
                  c[e] = ">" /\ \A j \in start..(e - 1) : c[j] # "NL"}
    IN  IF es = {} THEN 0 ELSE MinOf(es)

\* the match of r'<attached:\s*(.+?)>' that opens at k: \s* is greedy and
\* gives characters back only when the rest cannot match otherwise
MatchAttachedAt(c, k) ==
    LET p      == k + Len(PatAttached)
        blanks == {w \in 0..(Len(c) - p + 1) :
                      \A j \in p..(p + w - 1) : c[j] \in Whitespace}
        starts == {p + w : w \in {v \in blanks : GroupEnd(c, p + v) > 0}}
    IN  IF IsPrefixAt(c, PatAttached, k) /\ starts # {}
        THEN [ok |-> TRUE,
              group |-> SubSeq(c, MaxOf(starts), GroupEnd(c, MaxOf(starts)) - 1)]
        ELSE [ok |-> FALSE]

\* extract_filename_from_content(content): re.search takes the leftmost match
extract_filename_from_content(c) ==
    LET ks == {k \in 1..Len(c) : MatchAttachedAt(c, k).ok}
    IN  IF ks = {} THEN None ELSE MatchAttachedAt(c, MinOf(ks)).group

\* s.split(sep) for a single character sep
SplitOn(s, sep) ==
    LET at       == {k \in 1..Len(s) : s[k] = sep}
        n        == Cardinality(at)
        pos(j)   == CHOOSE q \in at : Cardinality({r \in at : r < q}) = j - 1
        from(j)  == IF j = 1 THEN 1 ELSE pos(j - 1) + 1
        upto(j)  == IF j = n + 1 THEN Len(s) ELSE pos(j) - 1
    IN  [j \in 1..(n + 1) |-> SubSeq(s, from(j), upto(j))]

\* extract_media_type_from_filename(filename)
extract_media_type_from_filename(filename) ==
    IF filename = None \/ filename = <<>> THEN None
    ELSE LET parts == SplitOn(filename, "-")
         IN  IF Len(parts) >= 2 THEN Upper(parts[2]) ELSE None

\* Path(x).name: what follows the last "/"
PathName(x) ==
    LET at == {k \in 1..Len(x) : x[k] = "/"}
    IN  IF at = {} THEN x ELSE SubSeq(x, MaxOf(at) + 1, Len(x))

\* Path(x).suffix: the name from its last "." on, when that "." is neither
\* the first nor the last character of the name
PathSuffix(x) ==
    LET name == PathName(x)
        dots == {k \in 1..Len(name) : name[k] = "."}
    IN  IF dots # {} /\ MaxOf(dots) > 1 /\ MaxOf(dots) < Len(name)
        THEN SubSeq(name, MaxOf(dots), Len(name))
        ELSE <<>>

\* str(media_dir / name) for a name that is a directory entry
JoinPath(dir, name) == dir \o <<"/">> \o name

\* A table is the list of its rows, a row a dict column -> value.  Every
\* table here has at least one row (parse_to_dataframe returns no other),
\* so the columns of a table are those of its first row.
HasColumn(t, col) == col \in DOMAIN t[1]

\* row.get(key, default) and data.get(key, default).  (`not row.get(key)`
\* is the same for a missing key, None and False.)
Get(row, key, default) == IF key \in DOMAIN row THEN row[key] ELSE default

\* df[col] = df.apply(f, axis=1): f is given the row
AddColumn(t, col, f(_)) == [j \in 1..Len(t) |-> DictPut(t[j], col, f(t[j]))]

\* `df = df` : the same object, no copy
NoCopy(h, ref) == [heap |-> h, ref |-> ref]
\* df = df.copy(): a new object holding the same rows
CopyTable(h, ref) == [heap |-> Append(h, h[ref]), ref |-> Len(h) + 1]

\* the column assignments of a stage, made on the object `ref`
SetTable(h, ref, t) == [heap |-> [h EXCEPT ![ref] = t], ref |-> ref]

\* add_message_classification(df)
add_message_classification(h, ref) ==
    LET c == CopyTable(h, ref)
    IN  SetTable(c.heap, c.ref,
            AddColumn(c.heap[c.ref], "tipo_mensagem",
                      LAMBDA row : classify_message_type(row.conteudo)))

\* inventory_media_files(media_dir): the rows of the returned DataFrame, as
\* a set (iterdir gives no order); the empty set is the empty DataFrame
inventory_media_files(md) ==
    IF ~md.exists THEN {}
    ELSE {[filename   |-> e.name,
           path       |-> JoinPath(md.path, e.name),
           extension  |-> Lower(PathSuffix(e.name)),
           size_bytes |-> e.size,
           media_type |-> extract_media_type_from_filename(e.name)] :
              e \in {x \in md.entries : x.is_file}}

\* as LinkRow, with the path filled in for every attachment, found or not
LinkRowPathAlways(row, existing_files, md) ==
    LET arquivo == extract_filename_from_content(row.conteudo)
        existe  == IF arquivo # None /\ arquivo # <<>>
                   THEN arquivo \in existing_files ELSE FALSE
        r1 == DictPut(row, "arquivo", arquivo)
        r2 == DictPut(r1, "arquivo_existe", existe)
        r3 == DictPut(r2, "extensao",
                      IF arquivo # None /\ arquivo # <<>>
                      THEN Lower(PathSuffix(arquivo)) ELSE None)
        r4 == DictPut(r3, "tipo_arquivo", extract_media_type_from_filename(arquivo))
    IN  DictPut(r4, "arquivo_path",
                IF arquivo # None THEN JoinPath(md.path, arquivo) ELSE None)
\* the columns link_media_to_messages adds to one row
LinkRow(row, existing_files, md) ==
    LET arquivo == extract_filename_from_content(row.conteudo)
        existe  == IF arquivo # None /\ arquivo # <<>>
                   THEN arquivo \in existing_files ELSE FALSE
        r1 == DictPut(row, "arquivo", arquivo)
        r2 == DictPut(r1, "arquivo_existe", existe)
        r3 == DictPut(r2, "extensao",
                      IF arquivo # None /\ arquivo # <<>>
                      THEN Lower(PathSuffix(arquivo)) ELSE None)
        r4 == DictPut(r3, "tipo_arquivo", extract_media_type_from_filename(arquivo))
    IN  DictPut(r4, "arquivo_path",
                IF existe THEN JoinPath(md.path, arquivo) ELSE None)

\* link_media_to_messages(df, media_dir)
link_media_to_messages(h, ref, md) ==
    LET c == CopyTable(h, ref)
        df_inventory   == inventory_media_files(md)
        existing_files == {r.filename : r \in df_inventory}
    IN  SetTable(c.heap, c.ref,
            [j \in 1..Len(c.heap[c.ref]) |->
                LinkRow(c.heap[c.ref][j], existing_files, md)])

\* load_transcriptions(transcription_file): the rows of the CSV, each with
\* the column filename = Path(file_path).name; no rows when there is no file
load_transcriptions(tf) ==
    IF ~tf.given \/ ~tf.exists THEN <<>>
    ELSE [j \in 1..Len(tf.rows) |->
            IF "file_path" \in DOMAIN tf.rows[j]
            THEN DictPut(tf.rows[j], "filename",
                         IF tf.rows[j].file_path # None
                         THEN PathName(tf.rows[j].file_path) ELSE None)
            ELSE tf.rows[j]]

\* the four columns of a message without transcription
NoTranscription(row) ==
    DictPut(DictPut(DictPut(DictPut(row,
        "tem_transcricao", FALSE), "transcricao", None),
        "transcription_status", None), "is_synthetic", FALSE)

\* df_transcriptions.set_index('filename').to_dict('index') needs unique keys
UniqueFilenames(tr) ==
    \A a, b \in 1..Len(tr) : tr[a].filename = tr[b].filename => a = b

\* as MergeRow, without the synthetic flag of the matched row
MergeRowNotSynthetic(row, tr) ==
    LET arquivo == row.arquivo
        hits    == {k \in 1..Len(tr) : tr[k].filename = arquivo}
    IN  IF arquivo = None \/ arquivo = <<>> \/ hits = {}
        THEN NoTranscription(row)
        ELSE LET data == tr[CHOOSE k \in hits : TRUE]
             IN  DictPut(DictPut(DictPut(DictPut(row,
                    "tem_transcricao", TRUE),
                    "transcricao", Get(data, "transcription", None)),
                    "transcription_status", Get(data, "transcription_status", None)),
                    "is_synthetic", FALSE)
\* get_transcription_data(arquivo) and the four column assignments
MergeRow(row, tr) ==
    LET arquivo == row.arquivo
        hits    == {k \in 1..Len(tr) : tr[k].filename = arquivo}
    IN  IF arquivo = None \/ arquivo = <<>> \/ hits = {}
        THEN NoTranscription(row)
        ELSE LET data == tr[CHOOSE k \in hits : TRUE]
             IN  DictPut(DictPut(DictPut(DictPut(row,
                    "tem_transcricao", TRUE),
                    "transcricao", Get(data, "transcription", None)),
                    "transcription_status", Get(data, "transcription_status", None)),
                    "is_synthetic", Get(data, "is_synthetic", FALSE))

\* merge_transcriptions(df, df_transcriptions); status is the exception
\* raised, or "returned"
merge_transcriptions(h, ref, tr) ==
    LET c == CopyTable(h, ref)
        t == c.heap[c.ref]
    IN  IF tr = <<>>
        THEN [status |-> "returned"] @@
             SetTable(c.heap, c.ref, [j \in 1..Len(t) |-> NoTranscription(t[j])])
        ELSE IF ~UniqueFilenames(tr)
        THEN [status |-> "ValueError"] @@ c
        ELSE IF ~HasColumn(t, "arquivo")
        THEN [status |-> "KeyError"] @@ c
        ELSE [status |-> "returned"] @@
             SetTable(c.heap, c.ref, [j \in 1..Len(t) |-> MergeRow(t[j], tr)])

\* " TRANSCRITO" and " - ÓRFÃO" ("O'" is U+00D3, "A~" is U+00C3)
TextTranscrito == <<" ", "T", "R", "A", "N", "S", "C", "R", "I", "T", "O">>
TextOrfao == <<" ", "-", " ", "O'", "R", "F", "A~", "O">>
TextArquivo == <<"[", "A", "r", "q", "u", "i", "v", "o", ":", " ">>
TextMedia == <<"M", "E", "D", "I", "A">>

\* as build_enriched_content, without the test for a null transcription
build_enriched_text_unchecked(row) ==
    IF ~Get(row, "tem_transcricao", FALSE)
    THEN row.conteudo
    ELSE <<"[">> \o Format(Get(row, "tipo_arquivo", TextMedia)) \o TextTranscrito
            \o (IF Get(row, "is_synthetic", FALSE) THEN TextOrfao ELSE <<>>)
            \o <<"]", " ">> \o Format(row.transcricao)
            \o <<"NL">> \o TextArquivo \o Format(Get(row, "arquivo", <<>>)) \o <<"]">>
\* build_enriched_content(row)
build_enriched_content(row) ==
    IF \/ ~Get(row, "tem_transcricao", FALSE)
       \/ Get(row, "transcricao", None) = None
    THEN row.conteudo
    ELSE <<"[">> \o Format(Get(row, "tipo_arquivo", TextMedia)) \o TextTranscrito
            \o (IF Get(row, "is_synthetic", FALSE) THEN TextOrfao ELSE <<>>)
            \o <<"]", " ">> \o row.transcricao
            \o <<"NL">> \o TextArquivo \o Format(Get(row, "arquivo", <<>>)) \o <<"]">>

\* enrich_content(df)
enrich_content(h, ref) ==
    LET c == CopyTable(h, ref)
    IN  SetTable(c.heap, c.ref,
            AddColumn(c.heap[c.ref], "conteudo_enriquecido", build_enriched_content))

----------------------------------------------------------------------------
(* export_optimized, export_corpus_files and run_wrangling_pipeline        *)

COLUMNS_FULL ==
    {"linha_original", "data", "hora", "timestamp", "remetente", "conteudo",
     "tipo_mensagem", "arquivo", "arquivo_existe", "extensao", "tipo_arquivo",
     "arquivo_path", "tem_transcricao", "transcricao", "transcription_status",
     "is_synthetic", "conteudo_enriquecido"}

COLUMNS_CORE ==
    {"timestamp", "remetente", "tipo_mensagem", "conteudo_enriquecido", "arquivo",
     "tem_transcricao", "transcricao", "is_synthetic"}

\* df[filter_columns(columns)]
Project(t, columns) ==
    [j \in 1..Len(t) |-> [c \in (DOMAIN t[j]) \cap columns |-> t[j][c]]]

NameMessagesFull ==
    <<"m", "e", "s", "s", "a", "g", "e", "s", "_", "f", "u", "l", "l", ".", "c", "s", "v">>
NameMessages == <<"m", "e", "s", "s", "a", "g", "e", "s", ".", "c", "s", "v">>
NameParquet ==
    <<"m", "e", "s", "s", "a", "g", "e", "s", ".", "p", "a", "r", "q", "u", "e", "t">>
KeyCsvFull == <<"c", "s", "v", "_", "f", "u", "l", "l">>
KeyCsvCore == <<"c", "s", "v", "_", "c", "o", "r", "e">>
KeyParquet == <<"p", "a", "r", "q", "u", "e", "t">>

\* export_optimized(df, output_dir, formats=['csv_full', 'csv_core',
\* 'parquet']): the files written (as the projected table; the encoding is
\* not modelled), the dict returned and the names written, in order
export_optimized(t, files, parquet_available) ==
    LET f1 == DictPut(files, NameMessagesFull, Project(t, COLUMNS_FULL))
        f2 == DictPut(f1, NameMessages, Project(t, COLUMNS_CORE))
        f3 == IF parquet_available
              THEN DictPut(f2, NameParquet, Project(t, COLUMNS_CORE)) ELSE f2
        o2 == DictPut(DictPut(EmptyDict, KeyCsvFull, NameMessagesFull),
                      KeyCsvCore, NameMessages)
    IN  [files   |-> f3,
         outputs |-> IF parquet_available THEN DictPut(o2, KeyParquet, NameParquet)
                     ELSE o2,
         writes  |-> <<NameMessagesFull, NameMessages>> \o
                     (IF parquet_available THEN <<NameParquet>> ELSE <<>>)]

\* the lines "date time sender: content\n" of the rows, for a content column
ChatTextOf(rows, col) ==
    Flatten([k \in 1..Len(rows) |->
        StrftimeDate(rows[k].timestamp) \o <<" ">> \o StrftimeTime(rows[k].timestamp)
            \o <<" ">> \o rows[k].remetente \o <<":", " ">> \o rows[k][col]
            \o <<"NL">>])

\* the lines "content\n" of the rows
CorpusTextOf(rows, col) ==
    Flatten([k \in 1..Len(rows) |-> rows[k][col] \o <<"NL">>])

\* df['remetente'].unique(): the distinct values in order of first appearance
UniqueSenders(t) ==
    LET first == {k \in 1..Len(t) : \A j \in 1..(k - 1) : t[j].remetente # t[k].remetente}
        nth(n) == CHOOSE k \in first : Cardinality({j \in first : j < k}) = n - 1
    IN  [n \in 1..Cardinality(first) |-> t[nth(n)].remetente]

KeyChat == <<"c", "h", "a", "t", "_">>
KeyCorpus == <<"c", "o", "r", "p", "u", "s", "_">>
ExtTxt == <<".", "t", "x", "t">>
KeyChatComplete == KeyChat \o <<"c", "o", "m", "p", "l", "e", "t", "e">>
KeyCorpusFull == KeyCorpus \o <<"f", "u", "l", "l">>

\* remetente.lower() in f'chat_{remetente.lower()}.txt'
SenderKey(remetente) == Lower(remetente)

\* lines 467-484: the loop over the senders; acc holds files, outputs, writes
RECURSIVE ExportSenders(_, _, _, _)
ExportSenders(t, col, senders, acc) ==
    IF senders = <<>> THEN acc
    ELSE LET remetente == Head(senders)
             df_rem == SelectSeq(t, LAMBDA row : row.remetente = remetente)
             chat_key   == KeyChat \o SenderKey(remetente)
             corpus_key == KeyCorpus \o SenderKey(remetente)
             f1 == DictPut(acc.files, chat_key \o ExtTxt, ChatTextOf(df_rem, col))
             f2 == DictPut(f1, corpus_key \o ExtTxt, CorpusTextOf(df_rem, col))
         IN  ExportSenders(t, col, Tail(senders),
                 [files   |-> f2,
                  outputs |-> DictPut(DictPut(acc.outputs, chat_key, chat_key \o ExtTxt),
                                      corpus_key, corpus_key \o ExtTxt),
                  writes  |-> acc.writes \o <<chat_key \o ExtTxt, corpus_key \o ExtTxt>>])

\* export_corpus_files(df, output_dir, use_enriched)
export_corpus_files(t, files, use_enriched) ==
    LET content_col == IF use_enriched /\ HasColumn(t, "conteudo_enriquecido")
                       THEN "conteudo_enriquecido" ELSE "conteudo"
        f1 == DictPut(files, KeyChatComplete \o ExtTxt, ChatTextOf(t, content_col))
        f2 == DictPut(f1, KeyCorpusFull \o ExtTxt, CorpusTextOf(t, content_col))
    IN  ExportSenders(t, content_col, UniqueSenders(t),
            [files   |-> f2,
             outputs |-> DictPut(DictPut(EmptyDict, KeyChatComplete,
                                         KeyChatComplete \o ExtTxt),
                                 KeyCorpusFull, KeyCorpusFull \o ExtTxt),
             writes  |-> <<KeyChatComplete \o ExtTxt, KeyCorpusFull \o ExtTxt>>])

\* outputs.update(other)
DictUpdate(d, other) ==
    [x \in DOMAIN d \cup DOMAIN other |-> IF x \in DOMAIN other THEN other[x] ELSE d[x]]

\* the steps of the docstring's example order that follow 'parse'
WranglingOrder == <<"classify", "media", "transcriptions", "enrich", "export">>

\* a record of one call of a stage function: the object passed, its rows at
\* the call and at the return, the object returned and its rows at the return
StageCall(fn, h, ref, h2, ref2) ==
    [fn |-> fn, inRef |-> ref, inTable |-> h[ref], inAfter |-> h2[ref],
     outRef |-> ref2, outTable |-> h2[ref2]]

\* lines 802-806
StepClassify ==
    /\ wpc = "run" /\ wstep <= Len(WranglingOrder)
    /\ WranglingOrder[wstep] = "classify"
    /\ LET r == add_message_classification(heap, wdf)
       IN  /\ heap' = r.heap
           /\ wdf' = r.ref
           /\ wcalls' = Append(wcalls, StageCall("add_message_classification", heap, wdf, heap', wdf'))
    /\ wstep' = wstep + 1
    /\ UNCHANGED <<media_dir, transcription_file, wfiles, woutputs, wwrites, wpc>>

\* lines 808-817
StepMedia ==
    /\ wpc = "run" /\ wstep <= Len(WranglingOrder)
    /\ WranglingOrder[wstep] = "media"
    /\ IF media_dir.given
       THEN LET r == link_media_to_messages(heap, wdf, media_dir)
            IN  /\ heap' = r.heap
                /\ wdf' = r.ref
                /\ wcalls' = Append(wcalls, StageCall("link_media_to_messages", heap, wdf, heap', wdf'))
       ELSE UNCHANGED <<heap, wdf, wcalls>>
    /\ wstep' = wstep + 1
    /\ UNCHANGED <<media_dir, transcription_file, wfiles, woutputs, wwrites, wpc>>

\* lines 819-854
StepTranscriptions ==
    /\ wpc = "run" /\ wstep <= Len(WranglingOrder)
    /\ WranglingOrder[wstep] = "transcriptions"
    /\ IF transcription_file.given /\ transcription_file.exists
       THEN LET df_trans == load_transcriptions(transcription_file)
                r == merge_transcriptions(heap, wdf, df_trans)
            IN  IF r.status = "returned"
                THEN /\ heap' = r.heap
                     /\ wdf' = r.ref
                     /\ wcalls' = Append(wcalls, StageCall("merge_transcriptions", heap, wdf, heap', wdf'))
                     /\ wstep' = wstep + 1
                     /\ wpc' = wpc
                ELSE /\ heap' = r.heap
                     /\ wpc' = r.status
                     /\ UNCHANGED <<wdf, wcalls, wstep>>
       ELSE \* df['tem_transcricao'] = False ... on the pipeline's own df
            /\ heap' = [heap EXCEPT ![wdf] =
                           [j \in 1..Len(heap[wdf]) |-> NoTranscription(heap[wdf][j])]]
            /\ wstep' = wstep + 1
            /\ UNCHANGED <<wdf, wcalls, wpc>>
    /\ UNCHANGED <<media_dir, transcription_file, wfiles, woutputs, wwrites>>

\* lines 856-860
StepEnrich ==
    /\ wpc = "run" /\ wstep <= Len(WranglingOrder)
    /\ WranglingOrder[wstep] = "enrich"
    /\ LET r == enrich_content(heap, wdf)
       IN  /\ heap' = r.heap
           /\ wdf' = r.ref
           /\ wcalls' = Append(wcalls, StageCall("enrich_content", heap, wdf, heap', wdf'))
    /\ wstep' = wstep + 1
    /\ UNCHANGED <<media_dir, transcription_file, wfiles, woutputs, wwrites, wpc>>

\* lines 862-879; whether pyarrow can be imported is the environment's choice
StepExport ==
    /\ wpc = "run" /\ wstep <= Len(WranglingOrder)
    /\ WranglingOrder[wstep] = "export"
    /\ \E parquet_available \in BOOLEAN :
          LET o == export_optimized(heap[wdf], wfiles, parquet_available)
              c == export_corpus_files(heap[wdf], o.files, TRUE)
          IN  /\ wfiles' = c.files
              /\ woutputs' = DictUpdate(DictUpdate(woutputs, o.outputs), c.outputs)
              /\ wwrites' = wwrites \o o.writes \o c.writes
    /\ wstep' = wstep + 1
    /\ UNCHANGED <<heap, wdf, media_dir, transcription_file, wcalls, wpc>>

\* lines 894-899: the return
WrangleReturn ==
    /\ wpc = "run" /\ wstep = Len(WranglingOrder) + 1
    /\ wpc' = "returned"
    /\ UNCHANGED <<heap, wdf, media_dir, transcription_file, wstep, wfiles, woutputs,
                   wcalls, wwrites>>

\* the most rows of a message table
MaxRows == 2

SampleDate == <<"0", "5", "/", "0", "1", "/", "2", "4">>
SampleTime == <<"0", "7", ":", "0", "8", ":", "0", "9">>

FileAudio == <<"1", "-", "A", "U", "D", "I", "O", "-", "a", ".", "o", "p", "u", "s">>
FileVideo == <<"2", "-", "V", "I", "D", "E", "O", "-", "b", ".", "m", "p", "4">>
FilePdf == <<"c", ".", "p", "d", "f">>

\* sender and content of the messages tried: two attachments, plain text
\* from a sender that differs from another in letter case only, an
\* attachment without space and with text after it, plain text
MessagePool ==
    { [remetente |-> <<"P", "1">>, conteudo |-> PatAttached \o <<" ">> \o FileAudio \o <<">">>],
      [remetente |-> <<"P", "2">>, conteudo |-> PatAttached \o <<" ">> \o FileVideo \o <<">">>],
      [remetente |-> <<"p", "1">>, conteudo |-> <<"h", "i">>],
      [remetente |-> <<"P", "1">>, conteudo |-> PatAttached \o FilePdf \o <<">", " ", "o", "k">>],
      [remetente |-> <<"P", "2">>, conteudo |-> <<"o", "l", "a">>] }

\* the table parse_to_dataframe returns for the messages ms
ParsedTable(ms) ==
    [k \in 1..Len(ms) |->
        WithTimestamp([linha_original |-> k, data |-> SampleDate, hora |-> SampleTime,
                       remetente |-> ms[k].remetente, conteudo |-> ms[k].conteudo])]

ParsedTables == {ParsedTable(ms) : ms \in SeqsUpTo(MessagePool, MaxRows) \ {<<>>}}

MediaPath == <<"m", "e", "d", "i", "a">>

DirEntry(name, is_file) == [name |-> name, is_file |-> is_file, size |-> 1]

\* media_dir: not given; given but missing; empty; with the audio and the
\* pdf as files and the video's name taken by a directory; with audio and video
MediaDirs ==
    { [given |-> FALSE],
      [given |-> TRUE, path |-> MediaPath, exists |-> FALSE, entries |-> {}],
      [given |-> TRUE, path |-> MediaPath, exists |-> TRUE, entries |-> {}],
      [given |-> TRUE, path |-> MediaPath, exists |-> TRUE,
       entries |-> {DirEntry(FileAudio, TRUE), DirEntry(FileVideo, FALSE),
                    DirEntry(FilePdf, TRUE)}],
      [given |-> TRUE, path |-> MediaPath, exists |-> TRUE,
       entries |-> {DirEntry(FileAudio, TRUE), DirEntry(FileVideo, TRUE)}] }

StatusCompleted == <<"c", "o", "m", "p", "l", "e", "t", "e", "d">>
StatusError == <<"e", "r", "r", "o", "r">>

CsvRow(file_path, transcription, status, is_synthetic) ==
    [file_path |-> file_path, transcription |-> transcription,
     transcription_status |-> status, is_synthetic |-> is_synthetic]

\* transcription_file: not given; given but missing; without rows; with a
\* completed and a failed row; with a synthetic row and a row whose
\* file_path holds a directory; with two rows for the same file
TranscriptionFiles ==
    { [given |-> FALSE],
      [given |-> TRUE, exists |-> FALSE, rows |-> <<>>],
      [given |-> TRUE, exists |-> TRUE, rows |-> <<>>],
      [given |-> TRUE, exists |-> TRUE,
       rows |-> << CsvRow(FileAudio, <<"o", "i">>, StatusCompleted, FALSE),
                   CsvRow(FileVideo, None, StatusError, FALSE) >>],
      [given |-> TRUE, exists |-> TRUE,
       rows |-> << CsvRow(FileVideo, <<"o", "i">>, StatusCompleted, TRUE),
                   CsvRow(MediaPath \o <<"/">> \o FilePdf, <<"o", "l", "a">>,
                          StatusCompleted, FALSE) >>],
      [given |-> TRUE, exists |-> TRUE,
       rows |-> << CsvRow(FileAudio, <<"o", "i">>, StatusCompleted, FALSE),
                   CsvRow(FileAudio, <<"o", "l", "a">>, StatusCompleted, FALSE) >>] }

\* run_wrangling_pipeline after its 'parse' step: df is the parsed table
WrangleInit ==
    /\ heap \in {<<t>> : t \in ParsedTables}
    /\ wdf = 1
    /\ media_dir \in MediaDirs
    /\ transcription_file \in TranscriptionFiles
    /\ wstep = 1
    /\ wfiles = EmptyDict /\ woutputs = EmptyDict
    /\ wcalls = <<>> /\ wwrites = <<>>
    /\ wpc = "run"
    /\ PipeIdle /\ StepIdle /\ ParseIdle /\ ClassIdle /\ BatchIdle

WrangleNext ==
    \/ StepClassify /\ UNCHANGED <<pipeVars, stepVars, parseVars, classVars, batchVars>>
    \/ StepMedia /\ UNCHANGED <<pipeVars, stepVars, parseVars, classVars, batchVars>>
    \/ StepTranscriptions /\ UNCHANGED <<pipeVars, stepVars, parseVars, classVars, batchVars>>
    \/ StepEnrich /\ UNCHANGED <<pipeVars, stepVars, parseVars, classVars, batchVars>>
    \/ StepExport /\ UNCHANGED <<pipeVars, stepVars, parseVars, classVars, batchVars>>
    \/ WrangleReturn /\ UNCHANGED <<pipeVars, stepVars, parseVars, classVars, batchVars>>

SpecWrangle == WrangleInit /\ [][WrangleNext]_vars

----------------------------------------------------------------------------
(* Claims about the wrangling stages                                       *)

\* the calls of one stage function recorded so far
CallsOf(fn) == {k \in 1..Len(wcalls) : wcalls[k].fn = fn}

\* the names of the files the media directory holds
ScannedFiles ==
    IF media_dir.given /\ media_dir.exists
    THEN {e.name : e \in {x \in media_dir.entries : x.is_file}}
    ELSE {}

\* C11: media link soundness.  After link_media_to_messages every message is
\* still in the table; a message whose attachment filename is non-null and
\* absent from the scanned directory has arquivo_existe = false and a null
\* arquivo_path, one whose filename is present has arquivo_existe = true and
\* arquivo_path = directory joined with the filename, and one with a null
\* filename has arquivo_existe = false and a null path.
C11_MediaLinkSoundness ==
    \A k \in CallsOf("link_media_to_messages") :
        LET in  == wcalls[k].inTable
            out == wcalls[k].outTable
        IN  /\ Len(out) = Len(in)
            /\ \A j \in 1..Len(out) :
                  /\ out[j].linha_original = in[j].linha_original
                  /\ out[j].conteudo = in[j].conteudo
                  /\ out[j].arquivo = None =>
                        ~out[j].arquivo_existe /\ out[j].arquivo_path = None
                  /\ (out[j].arquivo # None /\ out[j].arquivo \notin ScannedFiles) =>
                        ~out[j].arquivo_existe /\ out[j].arquivo_path = None
                  /\ out[j].arquivo \in ScannedFiles =>
                        /\ out[j].arquivo_existe
                        /\ out[j].arquivo_path = media_dir.path \o <<"/">> \o out[j].arquivo

\* a linked table holding an attachment that was found and one that was not,
\* in a directory that exists
C11_Witness ==
    \E k \in CallsOf("link_media_to_messages") :
        /\ media_dir.exists
        /\ \E a, b \in 1..Len(wcalls[k].outTable) :
              /\ wcalls[k].outTable[a].arquivo \in ScannedFiles
              /\ wcalls[k].outTable[a].arquivo_existe
              /\ wcalls[k].outTable[b].arquivo # None
              /\ wcalls[k].outTable[b].arquivo \notin ScannedFiles
              /\ wcalls[k].outTable[b].arquivo_path = None

\* the rows of the transcription file whose file name (the last component of
\* file_path) is the given name
TranscriptionRowsFor(name) ==
    {k \in 1..Len(transcription_file.rows) :
        /\ transcription_file.rows[k].file_path # None
        /\ LET p    == transcription_file.rows[k].file_path
               cuts == {q \in 1..Len(p) : p[q] = "/"}
           IN  name = SubSeq(p, (IF cuts = {} THEN 0 ELSE MaxOf(cuts)) + 1, Len(p))}

\* C12: merge_transcriptions joins by exact filename.  For every message,
\* tem_transcricao is true exactly when its attachment filename is non-null
\* and is a key of the transcription table; when true, the text, status and
\* synthetic flag are those of that table row; when false, the text and the
\* status are null.
C12_JoinByExactFilename ==
    \A k \in CallsOf("merge_transcriptions") :
        LET out == wcalls[k].outTable
        IN  \A j \in 1..Len(out) :
              LET arquivo == Get(out[j], "arquivo", None)
                  hits    == TranscriptionRowsFor(arquivo)
              IN  /\ out[j].tem_transcricao <=> (arquivo # None /\ hits # {})
                  /\ out[j].tem_transcricao =>
                        \E r \in hits :
                            /\ out[j].transcricao = transcription_file.rows[r].transcription
                            /\ out[j].transcription_status =
                                   transcription_file.rows[r].transcription_status
                            /\ out[j].is_synthetic = transcription_file.rows[r].is_synthetic
                  /\ ~out[j].tem_transcricao =>
                        /\ out[j].transcricao = None
                        /\ out[j].transcription_status = None

\* a merged table with a synthetic transcription on one message and an
\* attachment without transcription on another
C12_Witness ==
    \E k \in CallsOf("merge_transcriptions") :
        \E a, b \in 1..Len(wcalls[k].outTable) :
            /\ wcalls[k].outTable[a].tem_transcricao
            /\ wcalls[k].outTable[a].is_synthetic
            /\ wcalls[k].outTable[a].transcricao # None
            /\ wcalls[k].outTable[b].arquivo # None
            /\ ~wcalls[k].outTable[b].tem_transcricao

\* the line "[{kind} TRANSCRITO{suffix}] {text}" followed by
\* "[Arquivo: {filename}]" for a row
BracketedText(row, suffix) ==
    <<"[">> \o Format(row.tipo_arquivo)
        \o <<" ", "T", "R", "A", "N", "S", "C", "R", "I", "T", "O">> \o suffix
        \o <<"]", " ">> \o row.transcricao \o <<"NL">>
        \o <<"[", "A", "r", "q", "u", "i", "v", "o", ":", " ">> \o row.arquivo \o <<"]">>

\* C13: enrich_content leaves the content unchanged (conteudo_enriquecido =
\* conteudo) for every message whose tem_transcricao is false or whose
\* transcription text is null, whatever its status and synthetic flag; for
\* every other message the enriched content is the bracketed
\* "[{kind} TRANSCRITO...] {text}" line followed by "[Arquivo: {filename}]",
\* with the " - ÓRFÃO" suffix exactly when is_synthetic is true.
C13_EnrichContent ==
    \A k \in CallsOf("enrich_content") :
        LET out == wcalls[k].outTable
        IN  \A j \in 1..Len(out) :
              IF ~out[j].tem_transcricao \/ out[j].transcricao = None
              THEN out[j].conteudo_enriquecido = out[j].conteudo
              ELSE out[j].conteudo_enriquecido =
                      BracketedText(out[j],
                          IF out[j].is_synthetic
                          THEN <<" ", "-", " ", "O'", "R", "F", "A~", "O">> ELSE <<>>)

\* an enriched table with a message that has a transcription row without
\* text, left unchanged, and a message that got the bracketed text
C13_Witness ==
    \E k \in CallsOf("enrich_content") :
        \E a, b \in 1..Len(wcalls[k].outTable) :
            /\ wcalls[k].outTable[a].tem_transcricao
            /\ wcalls[k].outTable[a].transcricao = None
            /\ wcalls[k].outTable[a].transcription_status # None
            /\ wcalls[k].outTable[a].conteudo_enriquecido = wcalls[k].outTable[a].conteudo
            /\ wcalls[k].outTable[b].tem_transcricao
            /\ wcalls[k].outTable[b].transcricao # None
            /\ wcalls[k].outTable[b].conteudo_enriquecido # wcalls[k].outTable[b].conteudo

StageFunctions ==
    {"add_message_classification", "link_media_to_messages", "merge_transcriptions",
     "enrich_content"}

\* C20: append-only widening.  Each wrangling stage after parse
\* (classification, media link, transcription merge, enrichment) returns a
\* table with the same number of rows in the same order as its input, keeps
\* every existing column with its values unchanged, only adds columns, and
\* does not modify the table object passed to it.
C20_AppendOnlyWidening ==
    \A k \in 1..Len(wcalls) :
        LET in  == wcalls[k].inTable
            out == wcalls[k].outTable
        IN  /\ wcalls[k].fn \in StageFunctions
            /\ Len(out) = Len(in)
            /\ \A j \in 1..Len(in) :
                  /\ DOMAIN in[j] \subseteq DOMAIN out[j]
                  /\ \A col \in DOMAIN in[j] : out[j][col] = in[j][col]
            /\ wcalls[k].inAfter = in

\* all four stages have been called, on a table of two different messages,
\* and each returned a wider table
C20_Witness ==
    /\ {wcalls[k].fn : k \in 1..Len(wcalls)} = StageFunctions
    /\ \A k \in 1..Len(wcalls) :
          /\ Len(wcalls[k].inTable) = 2
          /\ wcalls[k].inTable[1].conteudo # wcalls[k].inTable[2].conteudo
          /\ DOMAIN wcalls[k].outTable[1] # DOMAIN wcalls[k].inTable[1]

\* the export step has run
Exported == wwrites # <<>>

\* the distinct sender values of the exported table
Senders == {heap[wdf][j].remetente : j \in 1..Len(heap[wdf])}

HasPrefix(s, p) == Len(s) >= Len(p) /\ SubSeq(s, 1, Len(p)) = p

\* the chat_... and corpus_... files other than chat_complete and corpus_full
SenderChatFiles ==
    {n \in DOMAIN wfiles : HasPrefix(n, KeyChat) /\ n # KeyChatComplete \o ExtTxt}
SenderCorpusFiles ==
    {n \in DOMAIN wfiles : HasPrefix(n, KeyCorpus) /\ n # KeyCorpusFull \o ExtTxt}

\* C19: export_corpus_files partitions the messages by the distinct observed
\* sender values: each distinct sender gets its own chat_<sender> and
\* corpus_<sender> file holding exactly that sender's messages in table
\* order, no two distinct senders (nor a sender and the chat_complete /
\* corpus_full outputs) share a file, and the per-sender files together
\* contain every message exactly once.
C19_PartitionBySender ==
    Exported =>
        LET t       == heap[wdf]
            of(s)   == SelectSeq(t, LAMBDA row : row.remetente = s)
            col     == "conteudo_enriquecido"
        IN  /\ \A s \in Senders :
                  /\ \E n \in SenderChatFiles : wfiles[n] = ChatTextOf(of(s), col)
                  /\ \E n \in SenderCorpusFiles : wfiles[n] = CorpusTextOf(of(s), col)
            /\ Cardinality(SenderChatFiles) = Cardinality(Senders)
            /\ Cardinality(SenderCorpusFiles) = Cardinality(Senders)

\* C18: a missing required directory is a fatal configuration error.  When
\* the media directory given to the pipeline's media step does not exist, the
\* run aborts before any message table or output file is changed: the media
\* step is not passed, the table is the parsed one with its classification
\* at most, nothing is written and the run does not return a result.
C18_MissingDirectoryIsFatal ==
    (media_dir.given /\ ~media_dir.exists) =>
        /\ CallsOf("link_media_to_messages") = {}
        /\ wstep <= 2
        /\ \A j \in 1..Len(heap[wdf]) : "arquivo" \notin DOMAIN heap[wdf][j]
        /\ wwrites = <<>>
        /\ wpc # "returned"

----------------------------------------------------------------------------
(* scripts/transcribe_media.py: the transcription batch, run and run again *)

StatusPending == <<"p", "e", "n", "d", "i", "n", "g">>

\* if processed % 10 == 0
SaveEvery == 10

\* if file_size_mb > 25
MaxFileMb == 25

\* st_size / (1024 * 1024)
BytesPerMb == 1024 * 1024

SUPPORTED_FORMATS ==
    { <<".", "o", "p", "u", "s">>, <<".", "m", "p", "3">>, <<".", "w", "a", "v">>,
      <<".", "m", "p", "4">>, <<".", "m", "4", "a">>, <<".", "w", "e", "b", "m">>,
      <<".", "m", "p", "e", "g">>, <<".", "m", "p", "g", "a">> }

\* str(n) for a natural number
RECURSIVE NatString(_)
NatString(n) ==
    IF n < 10 THEN <<DigitChar(n)>>
    ELSE NatString(n \div 10) \o <<DigitChar(n % 10)>>

\* f'{file_size_mb:.1f}' for a size in bytes: the quotient by 2^20 is exact
\* in a float, and the format rounds it to tenths, a tie to the even digit
FormatMb(size) ==
    LET q == 10 * (size \div BytesPerMb) + (10 * (size % BytesPerMb)) \div BytesPerMb
        r == (10 * (size % BytesPerMb)) % BytesPerMb
        tenths == IF 2 * r > BytesPerMb \/ (2 * r = BytesPerMb /\ q % 2 = 1)
                  THEN q + 1 ELSE q
    IN  NatString(tenths \div 10) \o <<".", DigitChar(tenths % 10)>>

\* 'Arquivo não encontrado' ("a~" is U+00E3)
ErrNotFound ==
    <<"A", "r", "q", "u", "i", "v", "o", " ", "n", "a~", "o", " ",
      "e", "n", "c", "o", "n", "t", "r", "a", "d", "o">>

\* f'Arquivo muito grande: {file_size_mb:.1f}MB (max 25MB)'
ErrTooLarge(size) ==
    <<"A", "r", "q", "u", "i", "v", "o", " ", "m", "u", "i", "t", "o", " ",
      "g", "r", "a", "n", "d", "e", ":", " ">> \o FormatMb(size)
      \o <<"M", "B", " ", "(", "m", "a", "x", " ", "2", "5", "M", "B", ")">>

\* str(e) of the exception the API call raised
ErrApi == <<"a", "p", "i">>

\* result.text.strip() of a successful call
TextOfCall == <<"o", "i">>

\* file_path.name of the k-th entry of the directory: its number and suffix
FileName(md, k) == NatString(k) \o md.files[k].suffix

\* MEDIA_DIR / row['file_path']: the entry of that name
FileNamed(md, name) ==
    md.files[CHOOSE k \in 1..Len(md.files) : FileName(md, k) = name]

\* scan_media_files(media_dir); the columns full_path, media_type and
\* size_mb are left out
scan_media_files(md) ==
    IF ~md.exists THEN <<>>
    ELSE LET keep == SelectSeq([k \in 1..Len(md.files) |-> k],
                         LAMBDA k : /\ md.files[k].is_file
                                    /\ Lower(md.files[k].suffix) \in SUPPORTED_FORMATS)
         IN  [j \in 1..Len(keep) |-> [file_path |-> FileName(md, keep[j])]]

\* as transcribe_audio, without the size ceiling
transcribe_any_size(f, raises) ==
    IF ~f.found
    THEN [called |-> FALSE, transcription |-> <<>>,
          transcription_status |-> StatusError, error_message |-> ErrNotFound]
    ELSE IF raises
    THEN [called |-> TRUE, transcription |-> <<>>,
          transcription_status |-> StatusError, error_message |-> ErrApi]
    ELSE [called |-> TRUE, transcription |-> TextOfCall,
          transcription_status |-> StatusCompleted, error_message |-> None]
\* transcribe_audio(client, file_path) for the file f; raises tells whether
\* the API call raises; called tells whether the API call was made
transcribe_audio(f, raises) ==
    IF ~f.found
    THEN [called |-> FALSE, transcription |-> <<>>,
          transcription_status |-> StatusError, error_message |-> ErrNotFound]
    ELSE IF f.size > MaxFileMb * BytesPerMb
    THEN [called |-> FALSE, transcription |-> <<>>,
          transcription_status |-> StatusError, error_message |-> ErrTooLarge(f.size)]
    ELSE IF raises
    THEN [called |-> TRUE, transcription |-> <<>>,
          transcription_status |-> StatusError, error_message |-> ErrApi]
    ELSE [called |-> TRUE, transcription |-> TextOfCall,
          transcription_status |-> StatusCompleted, error_message |-> None]

\* df.to_csv(path, index=False): None and '' are both written as an empty field
to_csv(rows) ==
    [j \in 1..Len(rows) |->
        [col \in DOMAIN rows[j] |-> IF rows[j][col] = None THEN <<>> ELSE rows[j][col]]]

\* pd.read_csv(path): an empty field is read as NaN
read_csv(file) ==
    [j \in 1..Len(file.rows) |->
        [col \in DOMAIN file.rows[j] |->
            IF file.rows[j][col] = <<>> THEN None ELSE file.rows[j][col]]]

\* as load_or_create_dataframe, with the progress file looked at first
load_progress_first(media_files, complete, progress) ==
    IF progress.exists THEN [df |-> read_csv(progress), is_complete |-> FALSE]
    ELSE IF complete.exists THEN [df |-> read_csv(complete), is_complete |-> TRUE]
    ELSE [df |-> [j \in 1..Len(media_files) |->
                    [file_path |-> media_files[j].file_path,
                     transcription |-> None,
                     transcription_status |-> StatusPending,
                     error_message |-> None]],
          is_complete |-> FALSE]
\* load_or_create_dataframe(media_files); the columns transcription_language,
\* transcription_confidence and is_synthetic are left out
load_or_create_dataframe(media_files, complete, progress) ==
    IF complete.exists THEN [df |-> read_csv(complete), is_complete |-> TRUE]
    ELSE IF progress.exists THEN [df |-> read_csv(progress), is_complete |-> FALSE]
    ELSE [df |-> [j \in 1..Len(media_files) |->
                    [file_path |-> media_files[j].file_path,
                     transcription |-> None,
                     transcription_status |-> StatusPending,
                     error_message |-> None]],
          is_complete |-> FALSE]

\* df.index: every row, whatever its status
IndexAll(rows, status) == [k \in 1..Len(rows) |-> k]
\* df[df['transcription_status'] == status].index
IndexWhere(rows, status) ==
    SelectSeq([k \in 1..Len(rows) |-> k], LAMBDA k : rows[k].transcription_status = status)

\* the memory of a process that is not running
NoMemory ==
    /\ tdf' = <<>> /\ is_complete' = FALSE /\ df_pending' = <<>> /\ processed' = 0

\* lines 194-241: setup_groq, the scan, the load and the two early returns
BatchStart ==
    /\ tpc = "start"
    /\ \E groq_ok \in BOOLEAN :
          IF ~groq_ok
          THEN /\ tpc' = "exit"
               /\ UNCHANGED <<tdf, is_complete, df_pending, processed, loaded>>
          ELSE LET media_files == scan_media_files(MEDIA_DIR)
                   l == load_or_create_dataframe(media_files, COMPLETE_FILE, PROGRESS_FILE)
                   pending == Len(IndexWhere(l.df, StatusPending))
               IN  IF media_files = <<>>
                   THEN /\ tpc' = "returned"
                        /\ UNCHANGED <<tdf, is_complete, df_pending, processed, loaded>>
                   ELSE /\ tdf' = l.df
                        /\ loaded' = l.df
                        /\ is_complete' = l.is_complete
                        /\ processed' = 0
                        /\ IF l.is_complete \/ pending = 0
                           THEN tpc' = "returned" /\ df_pending' = <<>>
                           ELSE tpc' = "loop" /\ df_pending' = IndexWhere(l.df, StatusPending)
    /\ UNCHANGED <<MEDIA_DIR, COMPLETE_FILE, PROGRESS_FILE, run, kills, api_calls, file_ops>>

\* as TranscribeRow, with the loop over df.index: any row, whatever its status
TranscribeAnyRow ==
    /\ tpc = "loop" /\ processed < Len(df_pending)
    /\ \E idx \in 1..Len(tdf) :
          LET r == transcribe_audio(FileNamed(MEDIA_DIR, tdf[idx].file_path), FALSE)
          IN  /\ tdf' = [tdf EXCEPT ![idx] =
                           [@ EXCEPT !.transcription = r.transcription,
                                     !.transcription_status = r.transcription_status,
                                     !.error_message = r.error_message]]
              /\ api_calls' = IF r.called
                              THEN Append(api_calls,
                                       [run |-> run, file_path |-> tdf[idx].file_path,
                                        transcription_status |-> r.transcription_status])
                              ELSE api_calls
    /\ processed' = processed + 1
    /\ tpc' = IF (processed + 1) % SaveEvery = 0 THEN "save" ELSE "loop"
    /\ UNCHANGED <<MEDIA_DIR, COMPLETE_FILE, PROGRESS_FILE, is_complete, df_pending,
                   run, kills, loaded, file_ops>>
\* lines 244-264: one turn of the loop up to the test of processed % 10
TranscribeRow ==
    /\ tpc = "loop" /\ processed < Len(df_pending)
    /\ LET idx  == df_pending[processed + 1]
           f    == FileNamed(MEDIA_DIR, tdf[idx].file_path)
       IN  \E raises \in (IF f.flaky THEN BOOLEAN ELSE {FALSE}) :
              LET r == transcribe_audio(f, raises)
              IN  /\ tdf' = [tdf EXCEPT ![idx] =
                               [@ EXCEPT !.transcription = r.transcription,
                                         !.transcription_status = r.transcription_status,
                                         !.error_message = r.error_message]]
                  /\ api_calls' = IF r.called
                                  THEN Append(api_calls,
                                           [run |-> run, file_path |-> tdf[idx].file_path,
                                            transcription_status |-> r.transcription_status])
                                  ELSE api_calls
    /\ processed' = processed + 1
    /\ tpc' = IF (processed + 1) % SaveEvery = 0 THEN "save" ELSE "loop"
    /\ UNCHANGED <<MEDIA_DIR, COMPLETE_FILE, PROGRESS_FILE, is_complete, df_pending,
                   run, kills, loaded, file_ops>>

\* as SaveProgress, with nothing written
SaveNothing ==
    /\ tpc = "save"
    /\ tpc' = "loop"
    /\ UNCHANGED <<MEDIA_DIR, COMPLETE_FILE, PROGRESS_FILE, tdf, is_complete, df_pending,
                   processed, run, kills, loaded, api_calls, file_ops>>
\* lines 265-266: df.to_csv(PROGRESS_FILE, index=False)
SaveProgress ==
    /\ tpc = "save"
    /\ PROGRESS_FILE' = [exists |-> TRUE, rows |-> to_csv(tdf)]
    /\ file_ops' = Append(file_ops, [run |-> run, op |-> "write_progress",
                                     processed |-> processed])
    /\ tpc' = "loop"
    /\ UNCHANGED <<MEDIA_DIR, COMPLETE_FILE, tdf, is_complete, df_pending, processed,
                   run, kills, loaded, api_calls>>

\* line 273: df.to_csv(COMPLETE_FILE, index=False), after the loop
WriteComplete ==
    /\ tpc = "loop" /\ processed = Len(df_pending)
    /\ COMPLETE_FILE' = [exists |-> TRUE, rows |-> to_csv(tdf)]
    /\ file_ops' = Append(file_ops, [run |-> run, op |-> "write_complete",
                                     processed |-> processed])
    /\ tpc' = "unlink"
    /\ UNCHANGED <<MEDIA_DIR, PROGRESS_FILE, tdf, is_complete, df_pending, processed,
                   run, kills, loaded, api_calls>>

\* lines 276-277 and the return: if PROGRESS_FILE.exists(): PROGRESS_FILE.unlink()
DeleteProgress ==
    /\ tpc = "unlink"
    /\ IF PROGRESS_FILE.exists
       THEN /\ PROGRESS_FILE' = [exists |-> FALSE, rows |-> <<>>]
            /\ file_ops' = Append(file_ops, [run |-> run, op |-> "delete_progress",
                                             processed |-> processed])
       ELSE UNCHANGED <<PROGRESS_FILE, file_ops>>
    /\ tpc' = "returned"
    /\ UNCHANGED <<MEDIA_DIR, COMPLETE_FILE, tdf, is_complete, df_pending, processed,
                   run, kills, loaded, api_calls>>

\* the most terminations from outside in one behaviour
MaxKills == 1

\* the most runs of main in one behaviour
MaxRuns == 3

\* the process is terminated from outside, between two of the steps above:
\* what it held in memory is lost, the files stay as they are
Kill ==
    /\ tpc \in {"start", "loop", "save", "unlink"}
    /\ kills < MaxKills
    /\ kills' = kills + 1
    /\ tpc' = "killed"
    /\ NoMemory
    /\ UNCHANGED <<MEDIA_DIR, COMPLETE_FILE, PROGRESS_FILE, run, loaded, api_calls, file_ops>>

\* the script is started again, after a run that got past setup_groq
Restart ==
    /\ tpc \in {"killed", "returned"}
    /\ run < MaxRuns
    /\ run' = run + 1
    /\ tpc' = "start"
    /\ NoMemory
    /\ loaded' = <<>>
    /\ UNCHANGED <<MEDIA_DIR, COMPLETE_FILE, PROGRESS_FILE, kills, api_calls, file_ops>>

\* the most files of the media directory
MaxMediaFiles == 11

SuffixOpus == <<".", "o", "p", "u", "s">>
SuffixPdf == <<".", "p", "d", "f">>

\* an audio file of one byte that the API transcribes
PlainFile ==
    [is_file |-> TRUE, suffix |-> SuffixOpus, size |-> 1, found |-> TRUE, flaky |-> FALSE]

\* a file one byte above the ceiling, one exactly at the ceiling, one deleted
\* after the scan, one on which the API call may raise, one that is no
\* audio or video, and a directory
OddFiles ==
    { [PlainFile EXCEPT !.size = MaxFileMb * BytesPerMb + 1],
      [PlainFile EXCEPT !.size = MaxFileMb * BytesPerMb],
      [PlainFile EXCEPT !.found = FALSE],
      [PlainFile EXCEPT !.flaky = TRUE],
      [PlainFile EXCEPT !.suffix = SuffixPdf],
      [PlainFile EXCEPT !.is_file = FALSE] }

\* the media directories tried: missing; with up to MaxMediaFiles plain
\* files; with one odd file alone; with MaxMediaFiles files of which one is
\* odd, at the first place, the tenth or the last
BatchDirs ==
    {[exists |-> FALSE, files |-> <<>>]} \cup
    {[exists |-> TRUE, files |-> [k \in 1..n |-> PlainFile]] : n \in 0..MaxMediaFiles} \cup
    {[exists |-> TRUE, files |-> <<odd>>] : odd \in OddFiles} \cup
    UNION {{[exists |-> TRUE,
             files  |-> [k \in 1..MaxMediaFiles |-> IF k = at THEN odd ELSE PlainFile]] :
                 odd \in OddFiles} :
           at \in {1, SaveEvery, MaxMediaFiles}}

\* the first run of the script: no result file yet
BatchInit ==
    /\ MEDIA_DIR \in BatchDirs
    /\ COMPLETE_FILE = [exists |-> FALSE, rows |-> <<>>]
    /\ PROGRESS_FILE = [exists |-> FALSE, rows |-> <<>>]
    /\ tdf = <<>> /\ is_complete = FALSE /\ df_pending = <<>> /\ processed = 0
    /\ run = 1 /\ kills = 0 /\ loaded = <<>> /\ api_calls = <<>> /\ file_ops = <<>>
    /\ tpc = "start"
    /\ PipeIdle /\ StepIdle /\ ParseIdle /\ ClassIdle /\ WrangleIdle

BatchNext ==
    \/ BatchStart /\ UNCHANGED <<pipeVars, stepVars, parseVars, classVars, wrangleVars>>
    \/ TranscribeRow /\ UNCHANGED <<pipeVars, stepVars, parseVars, classVars, wrangleVars>>
    \/ SaveProgress /\ UNCHANGED <<pipeVars, stepVars, parseVars, classVars, wrangleVars>>
    \/ WriteComplete /\ UNCHANGED <<pipeVars, stepVars, parseVars, classVars, wrangleVars>>
    \/ DeleteProgress /\ UNCHANGED <<pipeVars, stepVars, parseVars, classVars, wrangleVars>>
    \/ Kill /\ UNCHANGED <<pipeVars, stepVars, parseVars, classVars, wrangleVars>>
    \/ Restart /\ UNCHANGED <<pipeVars, stepVars, parseVars, classVars, wrangleVars>>

SpecBatch == BatchInit /\ [][BatchNext]_vars

----------------------------------------------------------------------------
(* Claims about the transcription batch                                    *)

\* the complete file existed when run r started: the first run starts
\* without it and no run deletes it
CompleteAtStart(r) ==
    \E k \in 1..Len(file_ops) : file_ops[k].op = "write_complete" /\ file_ops[k].run < r

\* C14: when the complete file transcriptions.csv exists at the start of a
\* run of main, the run short-circuits: it issues no transcription call for
\* any media file and writes or deletes neither the complete file nor the
\* progress file, whatever the statuses stored in the complete file and
\* whether or not the progress file is there.
C14_CompleteShortCircuits ==
    \A r \in 1..run :
        CompleteAtStart(r) =>
            /\ \A k \in 1..Len(api_calls) : api_calls[k].run # r
            /\ \A k \in 1..Len(file_ops) : file_ops[k].run # r

\* a later run has returned with the complete file there from its start,
\* holding a row of status error, and the progress file there as well
C14_Witness ==
    /\ run >= 2 /\ CompleteAtStart(run) /\ tpc = "returned" /\ is_complete
    /\ COMPLETE_FILE.exists /\ PROGRESS_FILE.exists
    /\ \E j \in 1..Len(COMPLETE_FILE.rows) :
          COMPLETE_FILE.rows[j].transcription_status = StatusError

\* C15 as stated: across any sequence of batch runs in which the process may
\* be terminated at any point and restarted, no media file receives a second
\* transcription call after a call for it has already returned status
\* completed.
C15_NoSecondCallAfterCompleted ==
    \A a, b \in 1..Len(api_calls) :
        (a < b /\ api_calls[a].file_path = api_calls[b].file_path) =>
            api_calls[a].transcription_status # StatusCompleted

\* the row of a table for a file
RowOf(rows, file_path) == rows[CHOOSE j \in 1..Len(rows) : rows[j].file_path = file_path]

\* no file has been written or deleted in the current run
NoFileOpThisRun == \A k \in 1..Len(file_ops) : file_ops[k].run # run

\* C15, amended: each run resumes from the last persisted checkpoint.  The
\* table it works on is the progress file as persisted (or, with no file, a
\* fresh table of pending rows), its transcription calls go only to rows
\* that are pending in that table, and no file is called twice in one run;
\* so a file whose completed status reached the persisted file is never
\* called again, while rows completed after the last write are.
C15_ResumeFromCheckpoint ==
    /\ \A k \in 1..Len(api_calls) :
          api_calls[k].run = run =>
              RowOf(loaded, api_calls[k].file_path).transcription_status = StatusPending
    /\ \A a, b \in 1..Len(api_calls) :
          (a < b /\ api_calls[a].file_path = api_calls[b].file_path) =>
              api_calls[a].run < api_calls[b].run
    /\ (tpc \in {"loop", "save", "unlink"} /\ NoFileOpThisRun) =>
          IF PROGRESS_FILE.exists
          THEN /\ Len(loaded) = Len(PROGRESS_FILE.rows)
               /\ \A j \in 1..Len(loaded) :
                     /\ loaded[j].file_path = PROGRESS_FILE.rows[j].file_path
                     /\ loaded[j].transcription_status =
                            PROGRESS_FILE.rows[j].transcription_status
          ELSE \A j \in 1..Len(loaded) : loaded[j].transcription_status = StatusPending

\* a run started after a termination has loaded a progress file with
\* completed rows and has called the API for a row that was pending in it
C15_Witness ==
    /\ run >= 2 /\ kills >= 1 /\ PROGRESS_FILE.exists
    /\ \E j \in 1..Len(loaded) : loaded[j].transcription_status = StatusCompleted
    /\ \E k \in 1..Len(api_calls) : api_calls[k].run = run

\* the file operations of the current run, in order
OpsThisRun == SelectSeq(file_ops, LAMBDA o : o.run = run)

\* C16: during a batch run the full table is persisted to the progress file
\* after every 10th row processed in that run; when the loop over pending
\* rows finishes, the complete file is written with the whole table before
\* the progress file is deleted, so that after a run that processed at least
\* one row and returned normally the complete file exists and the progress
\* file does not.
C16_CheckpointEveryTenThenComplete ==
    /\ (tpc = "loop" /\ processed > 0 /\ processed % 10 = 0) =>
          /\ PROGRESS_FILE.exists
          /\ PROGRESS_FILE.rows = to_csv(tdf)
    /\ (tpc \in {"loop", "unlink"}) =>
          Len(SelectSeq(OpsThisRun, LAMBDA o : o.op = "write_progress")) = processed \div 10
    /\ \A k \in 1..Len(OpsThisRun) :
          /\ OpsThisRun[k].op = "write_progress" =>
                OpsThisRun[k].processed > 0 /\ OpsThisRun[k].processed % 10 = 0
          /\ OpsThisRun[k].op = "write_complete" =>
                /\ tpc \in {"unlink", "returned"} =>
                       OpsThisRun[k].processed = Len(df_pending)
                /\ \A j \in 1..(k - 1) : OpsThisRun[j].op = "write_progress"
          /\ OpsThisRun[k].op = "delete_progress" =>
                k > 1 /\ OpsThisRun[k - 1].op = "write_complete"
    /\ tpc = "unlink" => COMPLETE_FILE.exists /\ COMPLETE_FILE.rows = to_csv(tdf)
    /\ (tpc = "returned" /\ processed >= 1) =>
          /\ COMPLETE_FILE.exists /\ COMPLETE_FILE.rows = to_csv(tdf)
          /\ ~PROGRESS_FILE.exists

\* a run has gone past its tenth row, written the progress file, then the
\* complete file, deleted the progress file and returned
C16_Witness ==
    /\ tpc = "returned" /\ processed > 10
    /\ \E a, b, c \in 1..Len(OpsThisRun) :
          /\ a < b /\ b < c
          /\ OpsThisRun[a].op = "write_progress"
          /\ OpsThisRun[b].op = "write_complete"
          /\ OpsThisRun[c].op = "delete_progress"
    /\ COMPLETE_FILE.exists /\ ~PROGRESS_FILE.exists

\* the rows the loop of the current run has been through
RowsDone == {df_pending[k] : k \in 1..processed}

\* the transcription calls of the current run for a file
CallsThisRun(file_path) ==
    {k \in 1..Len(api_calls) : api_calls[k].run = run /\ api_calls[k].file_path = file_path}

TooLargeText ==
    <<"A", "r", "q", "u", "i", "v", "o", " ", "m", "u", "i", "t", "o", " ",
      "g", "r", "a", "n", "d", "e">>

\* C17: per-row failure isolation.  A media file larger than 25 MB gets
\* status error with a too-large message and no transcription call is made
\* for it; a missing file or an exception raised by the transcription call
\* is recorded on that row as status error with a message; in all these
\* cases the loop continues and every remaining pending row is still
\* processed in the same run.
C17_FailureIsolation ==
    /\ \A j \in RowsDone :
          LET row == tdf[j]
              f   == FileNamed(MEDIA_DIR, row.file_path)
          IN  /\ row.transcription_status \in {StatusCompleted, StatusError}
              /\ (f.found /\ f.size > 25 * 1024 * 1024) =>
                    /\ row.transcription_status = StatusError
                    /\ HasPrefix(row.error_message, TooLargeText)
                    /\ \A k \in 1..Len(api_calls) : api_calls[k].file_path # row.file_path
              /\ ~f.found =>
                    /\ row.transcription_status = StatusError
                    /\ row.error_message # None /\ row.error_message # <<>>
              /\ (f.found /\ f.size <= 25 * 1024 * 1024) =>
                    \E k \in CallsThisRun(row.file_path) :
                        /\ row.transcription_status = api_calls[k].transcription_status
                        /\ row.transcription_status = StatusError =>
                              row.error_message # None /\ row.error_message # <<>>
    /\ (tpc = "unlink" \/ (tpc = "returned" /\ processed >= 1)) =>
          /\ processed = Len(df_pending)
          /\ \A j \in 1..Len(tdf) : tdf[j].transcription_status # StatusPending
          /\ \A j \in 1..Len(loaded) :
                loaded[j].transcription_status = StatusPending => j \in RowsDone

\* a run has returned with a first row rejected as too large, without a call,
\* and the rows after it transcribed
C17_Witness ==
    /\ tpc = "returned" /\ Len(tdf) > 1 /\ processed = Len(tdf)
    /\ tdf[1].transcription_status = StatusError
    /\ HasPrefix(tdf[1].error_message, TooLargeText)
    /\ CallsThisRun(tdf[1].file_path) = {}
    /\ \A j \in 2..Len(tdf) : tdf[j].transcription_status = StatusCompleted

----------------------------------------------------------------------------
(* The cleaning steps one by one, on the files of SpecStep                 *)

\* the text of a stripped bracketed-timestamp line after its timestamp
AfterTimestamp(curr) == DropFirst(curr, Len(timestamp_pattern_bracket))

\* a bracketed-timestamp line that carries no message text: what follows the
\* timestamp ends with the colon of the attribution and holds no ": "
IsEmptyHeader(l) ==
    LET curr == Strip(l)
    IN  /\ MatchShape(curr, timestamp_pattern_bracket)
        /\ EndsWith(curr, <<":">>)
        /\ ~Contains(AfterTimestamp(curr), <<":", " ">>)

IsMediaHeader(l) ==
    MatchShape(Strip(l), timestamp_pattern_bracket) /\ HasMedia(Strip(l))

\* the lines N of the documented rule: an empty header followed by two
\* media headers
RedundantHeaders(ls) ==
    { k \in 1..(Len(ls) - 2) :
        IsEmptyHeader(ls[k]) /\ IsMediaHeader(ls[k + 1]) /\ IsMediaHeader(ls[k + 2]) }

\* C21: empty_timestamps drops line N exactly when line N is a bracketed
\* timestamp line without message text and lines N+1 and N+2 are bracketed
\* timestamp lines with a media marker; every other line (header lines with
\* sender and text among them) is kept unchanged and in order, and
\* linhas_removidas is the number of lines dropped.
C21_DropsOnlyEmptyHeaders ==
    stepId = "empty_timestamps" /\ stepPc = "once" =>
        /\ stepOut = WriteLines(KeepNotIn(stepIn, RedundantHeaders(stepIn), 1))
        /\ StepFunction(stepId, stepIn).metrics.linhas_removidas
              = Cardinality(RedundantHeaders(stepIn))

\* where the "]" that closes a leading bracketed timestamp stands
TimestampEnd == Len(timestamp_pattern_bracket)

\* l is attributed to the participant whose pattern "] name:" is pat: the
\* pattern stands directly at the end of the leading bracketed timestamp
AttributedTo(l, pat) ==
    MatchShape(l, timestamp_pattern_bracket) /\ IsPrefixAt(l, pat, TimestampEnd)

\* l with the name of its attribution prefix replaced, the rest untouched
ReplaceAttribution(l, pat, anon) ==
    IF AttributedTo(l, pat)
    THEN SubSeq(l, 1, TimestampEnd - 1) \o anon \o DropFirst(l, TimestampEnd - 1 + Len(pat))
    ELSE l

AnonymizeAttribution(l) ==
    ReplaceAttribution(ReplaceAttribution(l, NameMarlon, AnonMarlon), NameLe, AnonLe)

\* C22: anonymize replaces a participant name by its token only in the
\* attribution prefix "] name:" directly after the leading bracketed
\* timestamp, leaves every occurrence in the message text unchanged (also a
\* text that holds "] name:"), and reports per name the number of
\* replacements made.
C22_AnonymizeOnlyAttribution ==
    stepId = "anonymize" /\ stepPc = "once" =>
        /\ stepOut = WriteLines([k \in 1..Len(stepIn) |-> AnonymizeAttribution(stepIn[k])])
        /\ StepFunction(stepId, stepIn).metrics.substituicoes
              = [Marlon |-> Cardinality({k \in 1..Len(stepIn) :
                                            AttributedTo(stepIn[k], NameMarlon)}),
                 Le     |-> Cardinality({k \in 1..Len(stepIn) :
                                            AttributedTo(stepIn[k], NameLe)})]

\* the lines optimize_timestamps rewrites
RewrittenLines(ls) == {k \in 1..Len(ls) : MatchShape(ls[k], timestamp_pattern_bracket)}

\* C24: optimize_timestamps saves 4 characters per rewritten line: the
\* output has as many characters as the input minus 4 times
\* timestamps_otimizados, and a line that does not start with
\* [DD/MM/YY, HH:MM:SS] is copied unchanged.
C24_SavesFourPerLine ==
    stepId = "timestamps" /\ stepPc = "once" =>
        /\ FileChars(stepOut) = FileChars(stepIn)
              - 4 * StepFunction(stepId, stepIn).metrics.timestamps_otimizados
        /\ Len(stepOut) = Len(stepIn)
        /\ \A k \in 1..Len(stepIn) : k \notin RewrittenLines(stepIn) => stepOut[k] = stepIn[k]

----------------------------------------------------------------------------
(* run_pipeline with raw_file at any path, the run's own output paths      *)
(* output_dir / raw-data_cln{k}.txt among them                             *)

InitAnyRawFile ==
    /\ order \in Orders
    /\ raw_file \in Paths
    /\ \E f \in RawFiles :
          /\ fs = [p \in Paths |-> IF p = raw_file THEN f ELSE NoFile]
          /\ rawOriginal = f.lines
    /\ dirExists = FALSE
    /\ pc = "start"
    /\ i = 0
    /\ previous = raw_file
    /\ outputs = EmptyDict /\ audits = EmptyDict /\ metrics = EmptyDict
    /\ step_metrics = EmptyDict
    /\ result = [status |-> "none"]
    /\ calls = <<>>
    /\ StepIdle /\ ParseIdle /\ ClassIdle /\ WrangleIdle /\ BatchIdle

SpecAnyRawFile == InitAnyRawFile /\ [][Next]_vars

\* C26: run_pipeline never changes the contents of raw_file, wherever
\* raw_file lies, a raw-data_cln{k}.txt of output_dir included: the file
\* holds after the run, and at every point of it, what it held before.
C26_RawFileUntouched == fs[raw_file].lines = rawOriginal

\* the same for a raw_file outside output_dir
C26_OutsideOutputDir == raw_file = RawPath => fs[raw_file].lines = rawOriginal

\* C27: run_pipeline returns one output path, one audit and one metrics
\* record per executed step, also when an id occurs more than once in
\* order: outputs, audits and metrics have len(order) entries, and the k-th
\* stage of the consolidated audit is raw-data_cln{k}.txt.
C27_OneRecordPerStep ==
    pc = "done" =>
        /\ Cardinality(DOMAIN result.outputs) = Len(order)
        /\ Cardinality(DOMAIN result.audits) = Len(order)
        /\ Cardinality(DOMAIN result.metrics) = Len(order)
        /\ \A k \in 1..Len(order) : Stages[k + 1].file = ClnPath(k)

\* the same for an order without repeated ids
C27_DistinctIds == NoDuplicates(order) => C27_OneRecordPerStep

\* a header line, bracketed or optimized, attributed to name
HeaderOf(l, name) ==
    \/ AttributedTo(l, <<"]", " ">> \o name \o <<":">>)
    \/ /\ MatchShape(l, timestamp_pattern_plain)
       /\ IsPrefixAt(l, <<" ">> \o name \o <<":">>, Len(timestamp_pattern_plain) + 1)

HasOriginalName(ls) ==
    \E k \in 1..Len(ls) : HeaderOf(ls[k], Marlon) \/ HeaderOf(ls[k], LeHeart)

\* C28: for every valid order that contains anonymize, before or after
\* timestamps, no header line of the final output is attributed to Marlon
\* or to "Le HEART".
C28_AnonymizeAnywhereInOrder ==
    pc = "done" /\ (\E k \in 1..Len(order) : order[k] = "anonymize") =>
        ~HasOriginalName(fs[result.final_output].lines)

\* the same when no timestamps step precedes anonymize
C28_AnonymizeBeforeTimestamps ==
    (\A a, b \in 1..Len(order) : order[a] = "timestamps" /\ order[b] = "anonymize" => b < a)
        => C28_AnonymizeAnywhereInOrder

----------------------------------------------------------------------------
(* The attached rule of classify_message_type                              *)

\* the least k with s[k] = c, Len(s) + 1 when there is none
FirstIndexOf(s, c) ==
    IF \E k \in 1..Len(s) : s[k] = c
    THEN CHOOSE k \in 1..Len(s) : s[k] = c /\ \A m \in 1..(k - 1) : s[m] # c
    ELSE Len(s) + 1

\* the attachment token of a lower-cased content: what stands between the
\* first "<attached:" and the ">" that closes it
AttachmentToken(lower) ==
    LET k    == CHOOSE n \in 1..Len(lower) :
                    /\ IsPrefixAt(lower, PatAttached, n)
                    /\ \A m \in 1..(n - 1) : ~IsPrefixAt(lower, PatAttached, m)
        rest == DropFirst(lower, k + Len(PatAttached) - 1)
    IN  SubSeq(rest, 1, FirstIndexOf(rest, ">") - 1)

\* C23: for a content that holds the attached marker and matches no earlier
\* rule, the tag is determined by the attachment token alone (audio, opus,
\* mp3: audio_attached; photo, jpg, png: image_attached; video, mp4:
\* video_attached; sticker, webp: sticker_attached; vcf: contact_attached;
\* otherwise file_attached), so two contents with the same token get the same
\* tag whatever text surrounds the token.
C23_KindFromAttachmentToken ==
    classPc # "start" /\ LowestRule(content) = 6 =>
        tipo_mensagem = AttachedType(AttachmentToken(ContentLower(content)))

\* C29: parse_to_dataframe on an input without a header line (an empty file,
\* or continuation lines only) returns an empty message sequence and raises
\* no error.
C29_NoHeaderGivesEmptyFrame ==
    Headers = {} /\ parsePc \notin {"idle", "scan"} =>
        parsePc \in {"returned", "exported"} /\ df = <<>>

----------------------------------------------------------------------------
(* Completion and row statuses of the transcription batch                  *)

\* the rows of a table that are pending
PendingRows(rows) == {k \in 1..Len(rows) : rows[k].transcription_status = StatusPending}

\* C25: eventual completion.  Whatever state runs and terminations have
\* left the two files in, a run that finds no pending row and is not
\* interrupted ends with the complete file transcriptions.csv present and
\* the progress file absent; so does a run that starts with only a progress
\* file whose rows are all completed or error.
C25_NoPendingRunCompletes ==
    (tpc = "returned" /\ loaded # <<>> /\ PendingRows(loaded) = {}) =>
        COMPLETE_FILE.exists /\ ~PROGRESS_FILE.exists

\* the same for the runs that start without a result file
C25_FreshRunCompletes ==
    (tpc = "returned" /\ loaded # <<>> /\ kills = 0) =>
        COMPLETE_FILE.exists /\ ~PROGRESS_FILE.exists

\* C30: row status only moves forward.  In every run a row's status changes
\* only from pending to completed or to error; each row that was pending
\* when the table was loaded is processed exactly once in the run; a row
\* loaded as completed or error is never passed to the transcription call
\* and none of its fields changes.
C30_StatusOnlyForward ==
    /\ tdf # <<>> =>
          /\ Len(tdf) = Len(loaded)
          /\ \A k \in 1..Len(tdf) :
                /\ loaded[k].transcription_status # StatusPending =>
                      /\ tdf[k] = loaded[k]
                      /\ k \notin RowsDone
                      /\ CallsThisRun(tdf[k].file_path) = {}
                /\ tdf[k] # loaded[k] =>
                      /\ loaded[k].transcription_status = StatusPending
                      /\ tdf[k].transcription_status \in {StatusCompleted, StatusError}
                      /\ tdf[k].file_path = loaded[k].file_path
                      /\ k \in RowsDone
                /\ k \in RowsDone =>
                      tdf[k].transcription_status \in {StatusCompleted, StatusError}
                /\ (k \in PendingRows(loaded) /\ k \notin RowsDone) => tdf[k] = loaded[k]
                /\ Cardinality(CallsThisRun(tdf[k].file_path)) <= 1
    /\ \A a, b \in 1..Len(df_pending) : a # b => df_pending[a] # df_pending[b]
    /\ tpc \in {"loop", "save", "unlink"} =>
          {df_pending[k] : k \in 1..Len(df_pending)} = PendingRows(loaded)
    /\ (tpc = "unlink" \/ (tpc = "returned" /\ processed >= 1)) =>
          RowsDone = PendingRows(loaded)

\* a run started after a termination has loaded a progress file with a
\* completed row, an error row and a pending row, has processed the pending
\* row and returned, the other rows as they were loaded
C30_Witness ==
    /\ run >= 2 /\ tpc = "returned" /\ processed >= 1
    /\ \E k \in 1..Len(loaded) : loaded[k].transcription_status = StatusCompleted
    /\ \E k \in 1..Len(loaded) :
          loaded[k].transcription_status = StatusError /\ tdf[k] = loaded[k]
    /\ \E k \in 1..Len(loaded) :
          /\ loaded[k].transcription_status = StatusPending
          /\ tdf[k].transcription_status = StatusCompleted
============================================================================
